---- MODULE Spec2Model ----
(***************************************************************************)
(* Model of ezmenulib's value-acquisition engines.                         *)
(*                                                                         *)
(*   FieldSpec   the written engine: ValueField::build_until and the       *)
(*               build_once / raw_read_input / parse_value chain it runs   *)
(*               (src/src/field.rs).                                       *)
(*   SelectSpec  the selected engine: SelectMenu::next_output and select   *)
(*               (src/src/menu.rs).                                        *)
(*                                                                         *)
(* Text is a sequence of one-character strings, so that trimming, case     *)
(* folding and parsing are computed and not assumed.                       *)
(***************************************************************************)
EXTENDS Integers, Sequences, FiniteSets, TLC

\* ------------------------------------------------------------------ bounds

\* Counters of prompts, reads and retries saturate at this value, so that the
\* retry loops stay loops in the state graph.
MaxAttempts == 2

\* Largest number of options of a selectable menu, and of fields of a
\* value-menu.
MaxFields == 2

\* Length to which the history of binding calls is kept.
MaxCalls == 2

\* Largest number of retrieval calls made on a value-menu.
MaxMenuCalls == 3

\* Largest number of inherit_fmt calls a field receives: the one of
\* ValueMenu::inner_new and those of the ValueMenu::fmt calls after it.
MaxInherits == 3

\* Largest number of lines of which the first answer of next_output is kept.
MaxRepeats == 2

\* ------------------------------------------------------------------- text

DigitChars == {"0", "1", "2", "3", "4", "5", "6", "7", "8", "9"}
SpaceChars == {" ", "\n"}

\* char::to_lowercase on the alphabet of the model.
ToLowerChar(c) ==
    CASE c = "A" -> "a"
      [] c = "B" -> "b"
      [] OTHER -> c

\* str::to_lowercase
to_lowercase(s) == [i \in 1..Len(s) |-> ToLowerChar(s[i])]

RECURSIVE TrimStart(_)
TrimStart(s) ==
    IF s = <<>> THEN <<>>
    ELSE IF Head(s) \in SpaceChars THEN TrimStart(Tail(s))
    ELSE s

RECURSIVE TrimEnd(_)
TrimEnd(s) ==
    IF s = <<>> THEN <<>>
    ELSE IF s[Len(s)] \in SpaceChars THEN TrimEnd(SubSeq(s, 1, Len(s) - 1))
    ELSE s

\* str::trim
trim(s) == TrimEnd(TrimStart(s))

DigitVal(c) ==
    CASE c = "0" -> 0 [] c = "1" -> 1 [] c = "2" -> 2 [] c = "3" -> 3
      [] c = "4" -> 4 [] c = "5" -> 5 [] c = "6" -> 6 [] c = "7" -> 7
      [] c = "8" -> 8 [] c = "9" -> 9 [] OTHER -> 0

RECURSIVE DigitsValue(_)
DigitsValue(s) ==
    IF s = <<>> THEN 0
    ELSE 10 * DigitsValue(SubSeq(s, 1, Len(s) - 1)) + DigitVal(s[Len(s)])

\* The digits of an unsigned integer literal: an optional leading "+" is
\* accepted by the FromStr of Rust's unsigned integers.
UnsignedBody(s) == IF s # <<>> /\ Head(s) = "+" THEN Tail(s) ELSE s

IsUnsigned(s) ==
    /\ UnsignedBody(s) # <<>>
    /\ \A i \in 1..Len(UnsignedBody(s)) : UnsignedBody(s)[i] \in DigitChars

\* ----------------------------------------------------------------- values

\* A value of a target type: n is the number of a numeric type (-1 when the
\* type is textual), s the text of a textual type.
NumVal(n) == [n |-> n, s |-> <<>>]
TxtVal(s) == [n |-> -1, s |-> s]
NoVal == [n |-> -1, s |-> <<"?">>]

U8Max == 2^8 - 1

\* The words the enum-like target types know (the doc examples' `Type` and
\* `Amount`, src/src/menu.rs 60-70 and 495-503).
KnownWords == {<<"a">>, <<"b">>, <<"a", "b">>}

\* Result<T, T::Err> of str::parse::<T>() for the target types of the model:
\*   "u8"      unsigned 8-bit integer, overflow is a parse error
\*   "usize"   unsigned integer
\*   "String"  every text parses, the empty one included, case kept
\*   "Lower"   an enum whose FromStr lower-cases its input (menu.rs 60-70)
\*   "Exact"   an enum whose FromStr matches exactly (menu.rs 495-503)
FromStr(T, s) ==
    CASE T = "u8" ->
            IF IsUnsigned(s) /\ DigitsValue(UnsignedBody(s)) <= U8Max
            THEN [ok |-> TRUE, val |-> NumVal(DigitsValue(UnsignedBody(s)))]
            ELSE [ok |-> FALSE, val |-> NoVal]
      [] T = "usize" ->
            IF IsUnsigned(s)
            THEN [ok |-> TRUE, val |-> NumVal(DigitsValue(UnsignedBody(s)))]
            ELSE [ok |-> FALSE, val |-> NoVal]
      [] T = "String" -> [ok |-> TRUE, val |-> TxtVal(s)]
      [] T = "Lower" ->
            IF to_lowercase(s) \in KnownWords
            THEN [ok |-> TRUE, val |-> TxtVal(to_lowercase(s))]
            ELSE [ok |-> FALSE, val |-> NoVal]
      [] OTHER ->
            IF s \in KnownWords
            THEN [ok |-> TRUE, val |-> TxtVal(s)]
            ELSE [ok |-> FALSE, val |-> NoVal]

\* ---------------------------------------------------------------- results

\* MenuResult<T> of a call:
\*   kind "None"   the call is still running
\*        "Ok"     Ok(val)
\*        "Err"    Err(err), raw the text the error carries
\*        "Panic"  the call panicked, raw the text of the message
\* and, as a history tag, the way the engine reached it:
\*   via  "Accepted"  the value was parsed from the input
\*        "Fallback"  the value is the default
\*        "Failed"    an error is returned
\*        "Abort"     the default did not parse
NoResult == [kind |-> "None", val |-> NoVal, err |-> "", raw |-> <<>>, via |-> ""]
Accepted(v) == [kind |-> "Ok", val |-> v, err |-> "", raw |-> <<>>, via |-> "Accepted"]
Fallback(v) == [kind |-> "Ok", val |-> v, err |-> "", raw |-> <<>>, via |-> "Fallback"]
ErrResult(e, raw) == [kind |-> "Err", val |-> NoVal, err |-> e, raw |-> raw, via |-> "Failed"]
PanicResult(raw) == [kind |-> "Panic", val |-> NoVal, err |-> "", raw |-> raw, via |-> "Abort"]

\* Saturating increment of the history counters.
Bump(n) == IF n < MaxAttempts THEN n + 1 ELSE n

\* ------------------------------------------------------------------ state

VARIABLES
    pc,             \* position of the running call
    result,         \* what the call returned (NoResult while it runs)
    eof,            \* the reader has reached end-of-input
    shown,          \* MenuResult<String> of the current attempt's show / read
    prompts,        \* prompts written by the call (saturating)
    reads,          \* lines read by the call (saturating)
    retries,        \* attempts that ended in a new iteration (saturating)
    ty,             \* the target type T / Output of the call
    details_default,\* ValueField.details.default: <<>> or <<DefaultValue>>
    until,          \* the predicate given to build_until
    entry,          \* the function of ValueField that was called
    sep,            \* the separator given to the many-values call ("" if none)
    fields,         \* SelectMenu.fields: sequence of [msg, bind];
                    \* ValueMenu.fields: what the iterator has left
    default,        \* SelectMenu.default: <<>> or <<index>>
    listed,         \* times the option list was written by the call
    bound,          \* indexes of the options whose binding ran, in order
    selected,       \* what select returned in the latest iteration
    rows,           \* the option list as the call wrote it
    title,          \* ValueMenu.title
    first_popped,   \* ValueMenu.first_popped
    history,        \* the retrieval calls made on the ValueMenu, in order
    fmt,            \* ValueField.fmt
    custom_fmt,     \* ValueField.custom_fmt
    show_d,         \* ValueField.details.show_d
    given,          \* <<>> or the format last given to ValueField::fmt, with
                    \* the properties the caller set in it
    title_fmt,      \* SelectTitle.fmt
    title_custom_fmt, \* SelectTitle.custom_fmt
    title_given,    \* <<>> or the format last given to SelectTitle::fmt
    menu_fmt,       \* ValueMenu.fmt
    inherits,       \* inherit_fmt calls made on the fields so far
    env,            \* the environment variable now: <<>> or <<text>>
    env_at_new,     \* <<>> before default_env ran, then <<what env was then>>
    prefix,         \* SelectMenu.prefix
    answers,        \* the calls of next_output that returned, one for each
                    \* line first answered: [line, res, menu]
    example,        \* ValueField.details.example: <<>> or <<text>>
    trace           \* what the current attempt did on the stream, in order:
                    \* the pieces written, the flush, the read

vars == <<pc, result, eof, shown, prompts, reads, retries, ty, details_default,
          until, entry, sep, fields, default, listed, bound, selected, rows,
          title, first_popped, history, fmt, custom_fmt, show_d, given,
          title_fmt, title_custom_fmt, title_given, menu_fmt, inherits,
          env, env_at_new, prefix, answers, example, trace>>

streamVars == <<eof, shown, prompts, reads>>
fieldCfg == <<ty, details_default, until, entry, sep>>
valueMenu == <<title, first_popped, history>>
envVars == <<env, env_at_new>>
repeatVars == <<prefix, answers>>
promptVars == <<example, trace>>
fmtVars == <<fmt, custom_fmt, show_d, given, title_fmt, title_custom_fmt,
             title_given, menu_fmt, inherits>>
menuCfg == <<fields, default>>
menuVars == <<fields, default, listed, bound, selected, rows>>

\* The stream operation failed: io::Error converted by `?` into MenuError.
IoFailed == [ok |-> FALSE, s |-> <<>>]
NotShown == [ok |-> TRUE, s |-> <<>>]

\* What read_line appends to `out` at end-of-input: nothing (Ok(0)).
EndOfInput == <<>>

\* --------------------------------------------------------- written engine

\* Lines the user may type on a written field, terminator included.
Lines ==
    { <<"\n">>,
      <<" ", "\n">>,
      <<"7", "\n">>,
      <<" ", "1", "2", " ", "\n">>,
      <<"3", "0", "0", "\n">>,
      <<"a", "b", "\n">> }

\* Target types of the written fields of the model.
FieldTypes == {"u8", "String"}

\* DefaultValue::Value(s) | DefaultValue::Env(s): for Env, s is the text the
\* variable held when the field was constructed.
DefaultValues ==
    { [kind |-> k, s |-> s] : k \in {"Value", "Env"}, s \in {<<"9">>, <<"1", "2">>, <<"x", "y">>} }

\* The predicates handed to build_until: F: Fn(&T) -> bool.
\*   "keep"      |_| true (build_with, utils::keep)
\*   "small"     numbers below 10, texts shorter than 2
\*   "nonempty"  numbers above 0, texts that are not empty
Predicates == {"keep", "small", "nonempty"}

\* (a `keep` that drops the value 7)
UntilKeepDrops(p, v) ==
    CASE p = "keep" -> v.n # 7
      [] p = "small" -> IF v.n >= 0 THEN v.n < 10 ELSE Len(v.s) < 2
      [] OTHER -> IF v.n >= 0 THEN v.n > 0 ELSE v.s # <<>>

Until(p, v) ==
    CASE p = "keep" -> TRUE
      [] p = "small" -> IF v.n >= 0 THEN v.n < 10 ELSE Len(v.s) < 2
      [] OTHER -> IF v.n >= 0 THEN v.n > 0 ELSE v.s # <<>>

\* parse_value: s.parse() with the error mapped to MenuError::Parse(s, e).
parse_value(T, s) ==
    IF FromStr(T, s).ok
    THEN [ok |-> TRUE, val |-> FromStr(T, s).val, err |-> "", raw |-> <<>>]
    ELSE [ok |-> FALSE, val |-> NoVal, err |-> "Parse", raw |-> s]

\* show(self, stream).map(parse_value): MenuResult<MenuResult<T>>.
MapParse(T, res) ==
    IF res.ok
    THEN [ok |-> TRUE, inner |-> parse_value(T, res.s)]
    ELSE [ok |-> FALSE, inner |-> parse_value(T, <<>>)]

\* (a conversion that takes the stream's error for a rejected line)
QueryIoLoop(r) ==
    IF r.ok /\ r.inner.ok
    THEN [q |-> "Finished", val |-> r.inner.val]
    ELSE [q |-> "Loop", val |-> NoVal]

\* impl From<MenuResult<MenuResult<T>>> for Query<T>
QueryFrom(r) ==
    IF ~r.ok THEN [q |-> "Err", val |-> NoVal]
    ELSE IF r.inner.ok THEN [q |-> "Finished", val |-> r.inner.val]
    ELSE [q |-> "Loop", val |-> NoVal]

\* build_once after show: show(self, stream).map(parse_value).into()
build_once(T, res) == QueryFrom(MapParse(T, res))

\* (a default_parse that reports an unparsable default as a Parse error)
default_parse_as_error(T, d) ==
    IF FromStr(T, d.s).ok THEN Fallback(FromStr(T, d.s).val) ELSE ErrResult("Parse", d.s)

\* default_parse of field.rs: the default's text parsed into T, panicking
\* through default_parse_failed when it does not parse.
default_parse(T, d) ==
    IF FromStr(T, d.s).ok THEN Fallback(FromStr(T, d.s).val) ELSE PanicResult(d.s)

\* (a loop that gives up on a value the predicate rejects)
BuildUntilArmLimited(T, res, d, p) ==
    LET q == build_once(T, res) IN
    CASE q.q = "Finished" /\ Until(p, q.val) -> Accepted(q.val)
      [] q.q = "Loop" -> IF d # <<>> THEN default_parse(T, d[1]) ELSE NoResult
      [] q.q = "Err" -> ErrResult("IOError", <<>>)
      [] OTHER -> ErrResult("incorrect input", <<>>)

\* (a loop that never falls back to the default)
BuildUntilArmNoFallback(T, res, d, p) ==
    LET q == build_once(T, res) IN
    CASE q.q = "Finished" /\ Until(p, q.val) -> Accepted(q.val)
      [] q.q = "Loop" -> NoResult
      [] q.q = "Err" -> ErrResult("IOError", <<>>)
      [] OTHER -> NoResult

\* (a loop that falls back to the default on an empty line only)
BuildUntilArmEmptyOnly(T, res, d, p) ==
    LET q == build_once(T, res) IN
    CASE q.q = "Finished" /\ Until(p, q.val) -> Accepted(q.val)
      [] q.q = "Loop" ->
            IF d # <<>> /\ res.s = <<>> THEN default_parse(T, d[1]) ELSE NoResult
      [] q.q = "Err" -> ErrResult("IOError", <<>>)
      [] OTHER -> NoResult

\* ------------------------------------------------------------- formatting

\* The properties of a ValueFieldFormatting and the values they take here.
Props == {"chip", "prefix", "new_line", "default"}
Chips == {"--> ", "* "}
Prefixes == {">> ", ":"}
Formattings == [chip : Chips, prefix : Prefixes, new_line : BOOLEAN, default : BOOLEAN]

\* impl Default for ValueFieldFormatting
DefaultFormatting == [chip |-> "--> ", prefix |-> ">> ", new_line |-> TRUE, default |-> TRUE]

\* A format written by its caller: the properties in `set` have the values
\* of `f`, the others come from ..Default::default().
Constructed(set, f) == [p \in Props |-> IF p \in set THEN f[p] ELSE DefaultFormatting[p]]

\* The field and the title before any formatting call, outside a menu:
\* ValueField::from and SelectTitle::from.
FreshFormatting ==
    /\ fmt = DefaultFormatting
    /\ custom_fmt = FALSE
    /\ show_d = DefaultFormatting.default
    /\ given = <<>>
    /\ title_fmt = Constructed({"prefix"}, [DefaultFormatting EXCEPT !.prefix = ":"])
    /\ title_custom_fmt = FALSE
    /\ title_given = <<>>
    /\ menu_fmt = DefaultFormatting
    /\ inherits = 0

\* No environment variable is involved.
NoEnv == env = <<>> /\ env_at_new = <<>>

\* SelectMenu::from: the prefix is ">> "; no call has returned yet.
NoAnswers == prefix = ">> " /\ answers = {}

\* FieldDetails::new: no example; nothing done on the stream yet.
NoExample == example = <<>> /\ trace = <<>>

\* (a loop that resolves the default before it looks at the line)
BuildUntilArmEager(T, res, d, p) ==
    LET q == build_once(T, res) IN
    IF d # <<>> /\ default_parse(T, d[1]).kind = "Panic" THEN default_parse(T, d[1])
    ELSE CASE q.q = "Finished" /\ Until(p, q.val) -> Accepted(q.val)
           [] q.q = "Loop" -> IF d # <<>> THEN default_parse(T, d[1]) ELSE NoResult
           [] q.q = "Err" -> ErrResult("IOError", <<>>)
           [] OTHER -> NoResult

\* (a loop that returns the default only if the predicate accepts it)
BuildUntilArmChecksDefault(T, res, d, p) ==
    LET q == build_once(T, res) IN
    CASE q.q = "Finished" /\ Until(p, q.val) -> Accepted(q.val)
      [] q.q = "Loop" ->
            IF d # <<>> /\ (FromStr(T, d[1].s).ok => Until(p, FromStr(T, d[1].s).val))
            THEN default_parse(T, d[1]) ELSE NoResult
      [] q.q = "Err" -> ErrResult("IOError", <<>>)
      [] OTHER -> NoResult

\* One iteration of the loop of build_until on the outcome `res` of show:
\* the result of the call, or NoResult when the loop goes round again.
BuildUntilArm(T, res, d, p) ==
    LET q == build_once(T, res) IN
    CASE q.q = "Finished" /\ Until(p, q.val) -> Accepted(q.val)
      [] q.q = "Loop" -> IF d # <<>> THEN default_parse(T, d[1]) ELSE NoResult
      [] q.q = "Err" -> ErrResult("IOError", <<>>)
      [] OTHER -> NoResult

FieldInit ==
    /\ pc = "write"
    /\ result = NoResult
    /\ eof = FALSE
    /\ shown = NotShown
    /\ prompts = 0
    /\ reads = 0
    /\ retries = 0
    /\ ty \in FieldTypes
    /\ details_default \in {<<>>} \cup {<<d>> : d \in DefaultValues}
    /\ until \in Predicates
    /\ entry = "build_until"
    /\ sep = ""
    /\ fields = <<>>
    /\ default = <<>>
    /\ listed = 0
    /\ bound = <<>>
    /\ selected = [res |-> NoResult, calls |-> <<>>]
    /\ rows = <<>>
    /\ title = <<>>
    /\ first_popped = FALSE
    /\ history = <<>>
    /\ FreshFormatting
    /\ NoEnv
    /\ NoAnswers
    /\ NoExample

\* ------------------------------------------------------------- the prompt

\* A piece of text written to the stream, and what else is done on it.
Piece(part, text) == [part |-> part, text |-> text]
Flushed == Piece("flush", <<>>)
LineRead == Piece("read", <<>>)

\* The message of the field.
Msg == <<"m", "s", "g">>

\* Examples given to ValueField::example.
Examples == {<<"e">>}

\* impl Display for DefaultValue: "default: {s}"
Display_DefaultValue(d) == <<Piece("text", <<"default: ">>), Piece("default", d.s)>>

\* The example part of the hint: "example: {e}"
ExampleText(e) == <<Piece("text", <<"example: ">>), Piece("example", e)>>

\* write!(f, " ({})", inner)
InParens(inner) == <<Piece("text", <<" (">>)>> \o inner \o <<Piece("text", <<")">>)>>

\* The outcome of a Display::fmt: the pieces written, or the panic of
\* unreachable!().
Rendered(pieces) == [ok |-> TRUE, text |-> pieces]
Unreachable == [ok |-> FALSE, text |-> <<>>]

\* (a hint without the second early return)
Display_FieldDetails_no_guard(ex, d, sd) ==
    IF ex = <<>> /\ d = <<>> THEN Rendered(<<>>)
    ELSE IF d # <<>> /\ ex = <<>> /\ sd
         THEN Rendered(InParens(Display_DefaultValue(d[1])))
    ELSE IF d # <<>> /\ ex # <<>> /\ sd
         THEN Rendered(InParens(ExampleText(ex[1]) \o <<Piece("text", <<", ">>)>>
                                    \o Display_DefaultValue(d[1])))
    ELSE IF d = <<>> /\ ex # <<>> THEN Rendered(InParens(ExampleText(ex[1])))
    ELSE IF d # <<>> /\ ex # <<>> THEN Rendered(InParens(ExampleText(ex[1])))
    ELSE Unreachable

\* impl Display for FieldDetails: nothing when there is no example and
\* either no default or show_d is false; else " (..)" around the first arm
\* of the match that applies, in the order of the source.
Display_FieldDetails(ex, d, sd) ==
    IF (ex = <<>> /\ d = <<>>) \/ (ex = <<>> /\ ~sd) THEN Rendered(<<>>)
    ELSE IF d # <<>> /\ ex = <<>> /\ sd
         THEN Rendered(InParens(Display_DefaultValue(d[1])))
    ELSE IF d # <<>> /\ ex # <<>> /\ sd
         THEN Rendered(InParens(ExampleText(ex[1]) \o <<Piece("text", <<", ">>)>>
                                    \o Display_DefaultValue(d[1])))
    ELSE IF d = <<>> /\ ex # <<>> THEN Rendered(InParens(ExampleText(ex[1])))
    ELSE IF d # <<>> /\ ex # <<>> THEN Rendered(InParens(ExampleText(ex[1])))
    ELSE Unreachable

\* (a prompt whose newline comes after the prefix, new_line or not)
Display_ValueField_nl_last(f, ex, d, sd) ==
    IF ~Display_FieldDetails(ex, d, sd).ok THEN Unreachable
    ELSE Rendered(<<Piece("chip", <<f.chip>>), Piece("msg", Msg)>>
                    \o Display_FieldDetails(ex, d, sd).text
                    \o <<Piece("prefix", <<f.prefix>>), Piece("nl", <<"\n">>)>>)

\* impl Display for ValueField: "{chip}{msg}{det}{nl}{prefix}"
Display_ValueField(f, ex, d, sd) ==
    IF ~Display_FieldDetails(ex, d, sd).ok THEN Unreachable
    ELSE Rendered(<<Piece("chip", <<f.chip>>), Piece("msg", Msg)>>
                    \o Display_FieldDetails(ex, d, sd).text
                    \o (IF f.new_line THEN <<Piece("nl", <<"\n">>)>> ELSE <<>>)
                    \o <<Piece("prefix", <<f.prefix>>)>>)

\* A stream operation fails: `?` leaves show with the error.
IoFailure ==
    /\ shown' = IoFailed
    /\ pc' = "match"

\* build_once / show: write!(stream, "{}", field)
WritePrompt ==
    /\ pc = "write"
    /\ LET p == Display_ValueField(fmt, example, details_default, show_d) IN
        IF ~p.ok
        THEN /\ result' = PanicResult(<<>>)
             /\ pc' = "done"
             /\ trace' = <<>>
             /\ UNCHANGED <<shown, prompts>>
        ELSE \/ /\ pc' = "flush"
                /\ prompts' = Bump(prompts)
                /\ shown' = NotShown
                /\ trace' = p.text
                /\ UNCHANGED result
             \/ /\ IoFailure
                /\ \E k \in 0..(Len(p.text) - 1) : trace' = SubSeq(p.text, 1, k)
                /\ UNCHANGED <<result, prompts>>
    /\ UNCHANGED <<eof, reads, retries, fieldCfg, envVars, repeatVars, example, fmtVars, valueMenu, menuVars>>

\* build_once / show: stream.flush()
Flush ==
    /\ pc = "flush"
    /\ \/ /\ pc' = "read"
          /\ trace' = Append(trace, Flushed)
          /\ UNCHANGED shown
       \/ /\ IoFailure
          /\ UNCHANGED trace
    /\ UNCHANGED <<result, eof, prompts, reads, retries, fieldCfg, envVars, repeatVars, example, fmtVars, valueMenu, menuVars>>

\* raw_read_input: stream.read_line(&mut out)
ReadLine ==
    /\ pc = "read"
    /\ \/ \E l \in (IF eof THEN {} ELSE Lines) \cup {EndOfInput} :
            /\ shown' = [ok |-> TRUE, s |-> l]
            /\ eof' = (l = EndOfInput)
            /\ reads' = Bump(reads)
            /\ trace' = Append(trace, LineRead)
            /\ pc' = "nl"
       \/ /\ IoFailure
          /\ UNCHANGED <<eof, reads, trace>>
    /\ UNCHANGED <<result, prompts, retries, fieldCfg, envVars, repeatVars, example, fmtVars, valueMenu, menuVars>>

\* raw_read_input: stream.write_all(b"\n") and Ok(out.trim().to_owned())
WriteNl ==
    /\ pc = "nl"
    /\ \/ /\ shown' = [ok |-> TRUE, s |-> trim(shown.s)]
          /\ trace' = Append(trace, Piece("nl", <<"\n">>))
          /\ pc' = "match"
       \/ /\ IoFailure
          /\ UNCHANGED trace
    /\ UNCHANGED <<result, eof, prompts, reads, retries, fieldCfg, envVars, repeatVars, example, fmtVars, valueMenu, menuVars>>

\* build_once's conversion into Query and the match of build_until on it.
Match ==
    /\ pc = "match" /\ entry = "build_until"
    /\ LET r == BuildUntilArm(ty, shown, details_default, until) IN
        /\ result' = r
        /\ IF r = NoResult
           THEN pc' = "write" /\ retries' = Bump(retries)
           ELSE pc' = "done" /\ UNCHANGED retries
    /\ UNCHANGED <<streamVars, fieldCfg, envVars, repeatVars, promptVars, fmtVars, valueMenu, menuVars>>

FieldNext == WritePrompt \/ Flush \/ ReadLine \/ WriteNl \/ Match

FieldSpec == FieldInit /\ [][FieldNext]_vars

\* ------------------------------------------------- written engine: claims

\* The line of the latest attempt has been read without a stream failure and
\* matched by build_until; shown.s is that line, trimmed.
Processed == reads > 0 /\ shown.ok /\ pc \in {"write", "done"}

HasDefault == details_default # <<>>

\* The trimmed line parses into the target type / the predicate accepts it.
LineParses == FromStr(ty, shown.s).ok
LineValue == FromStr(ty, shown.s).val
LineKept == LineParses /\ Until(until, LineValue)

\* The resolved default of the field.
ResolvedDefault == default_parse(ty, details_default[1])

\* C1: build_until has no attempt limit. A line that fails to parse on a field
\* without default, or that parses and is rejected by the predicate while
\* non-empty, sends the call round the loop again: at the top of the loop as
\* many prompts were written and lines read as attempts were rejected, and
\* the call has returned only with an accepted line, a fallback to the
\* default, or a stream failure.
C1_NoAttemptLimit ==
    /\ (Processed /\ ~LineParses /\ ~HasDefault)
            => (pc = "write" /\ result = NoResult)
    /\ (Processed /\ LineParses /\ ~Until(until, LineValue) /\ shown.s # <<>>)
            => (pc = "write" /\ result = NoResult)
    /\ pc = "write" => (prompts = retries /\ reads = retries)
    /\ pc = "done" =>
            \/ shown.ok /\ LineKept /\ result = Accepted(LineValue)
            \/ shown.ok /\ HasDefault /\ result.via \in {"Fallback", "Abort"}
            \/ ~shown.ok /\ result.kind = "Err"

\* C1 witness: MaxAttempts lines in a row were rejected by the predicate on a
\* field with a default, and the call is at the top of the loop again.
C1_Witness ==
    /\ pc = "write" /\ retries = MaxAttempts /\ prompts = MaxAttempts
    /\ HasDefault /\ shown.ok /\ shown.s # <<>> /\ LineParses

\* C2: an I/O failure of the stream in any attempt ends the call with that
\* error at that attempt: no prompt or read follows it, and the default is
\* not returned in its place.
C2_IoFailurePropagates ==
    ~shown.ok =>
        /\ pc \in {"match", "done"}
        /\ pc = "done" => result = ErrResult("IOError", <<>>)

\* C2 witness: the read of a later attempt failed on a field with a default,
\* and the call ended with the error.
C2_Witness ==
    /\ pc = "done" /\ ~shown.ok /\ HasDefault /\ retries > 0
    /\ result.kind = "Err"

\* C3 (as claimed): with a default configured, whatever the target type and
\* the predicate, a line read that is empty once trimmed makes the call
\* return the resolved default without a further prompt.
C3_EmptyLineReturnsDefault ==
    (Processed /\ HasDefault /\ ~eof /\ shown.s = <<>>)
        => (pc = "done" /\ result = ResolvedDefault)

\* C4: literal default, no predicate constraint (build_with): a non-empty
\* line that does not parse returns the resolved default after that single
\* attempt, a line that parses returns the parsed value.
C4_UnparsableLineFallsBack ==
    (Processed /\ HasDefault /\ until = "keep"
      /\ details_default[1].kind = "Value" /\ shown.s # <<>>)
        => /\ pc = "done" /\ prompts = 1 /\ reads = 1 /\ retries = 0
           /\ result = IF LineParses THEN Accepted(LineValue) ELSE ResolvedDefault

\* C4 witness: the line "ab" on a u8 field with the literal default "9"
\* returned 9.
C4_Witness ==
    /\ pc = "done" /\ ty = "u8" /\ until = "keep"
    /\ details_default = << [kind |-> "Value", s |-> <<"9">>] >>
    /\ shown = [ok |-> TRUE, s |-> <<"a", "b">>]
    /\ result = Fallback(NumVal(9))

\* C5 (as claimed): with a default configured the fallback is taken only on
\* an empty line; a non-empty line that fails to parse leads to a new prompt.
C5_FallbackOnlyOnEmptyLine ==
    (Processed /\ HasDefault /\ ~LineParses /\ shown.s # <<>>)
        => (pc = "write" /\ result = NoResult)

\* C5 (amended): with a default configured the fallback is taken exactly
\* when the line fails to parse, empty or not: such a line ends the call
\* with the resolved default and no new prompt, and no other line does.
C5_FallbackOnParseFailure ==
    /\ (Processed /\ HasDefault /\ ~LineParses)
            => (pc = "done" /\ result = ResolvedDefault)
    /\ (pc = "done" /\ result.via \in {"Fallback", "Abort"})
            => (shown.ok /\ HasDefault /\ ~LineParses)

\* C5 witness: a non-empty line that does not parse ended the call with the
\* default, after an earlier attempt was retried.
C5_Witness ==
    /\ pc = "done" /\ result.via = "Fallback" /\ shown.s # <<>> /\ retries > 0

\* C6 (as claimed): with a default configured, an empty line that parses and
\* is rejected by the predicate returns the resolved default instead of
\* prompting again.
C6_RejectedEmptyLineFallsBack ==
    (Processed /\ HasDefault /\ ~eof /\ shown.s = <<>> /\ LineParses
      /\ ~Until(until, LineValue))
        => (pc = "done" /\ result = ResolvedDefault)

\* C7 (as claimed): at end-of-input on a field with no default the call ends
\* with a distinct no-more-input error instead of prompting again.
C7_EndOfInputIsAnError ==
    (Processed /\ eof /\ ~HasDefault)
        => (pc = "done" /\ result = ErrResult("NoMoreInput", <<>>))

\* C8: no default, no predicate (build_with): a first line that parses is
\* returned as parsed, after one prompt and one read.
C8_ValidFirstLineAccepted ==
    (Processed /\ ~HasDefault /\ until = "keep" /\ reads = 1 /\ LineParses)
        => /\ pc = "done" /\ prompts = 1 /\ retries = 0
           /\ result = Accepted(LineValue)
           /\ (ty = "u8" /\ shown.s = <<"1", "2">>) => result.val = NumVal(12)
           /\ (ty = "String" /\ shown.s = <<"a", "b">>)
                    => result.val = TxtVal(<<"a", "b">>)

\* C8 witness: the line " 12 " on a u8 field returned 12 at the first attempt.
C8_Witness ==
    /\ pc = "done" /\ ty = "u8" /\ ~HasDefault /\ until = "keep"
    /\ shown = [ok |-> TRUE, s |-> <<"1", "2">>]
    /\ result = Accepted(NumVal(12)) /\ prompts = 1 /\ reads = 1

\* -------------------------------------------------------- selected engine

\* Labels of the options (SelectField.msg) and the outcomes of their
\* bindings: "none" no binding, "ok" it returns Ok(()), "err" it returns Err.
Labels == {<<"a">>, <<"B">>, <<"2">>}
Binds == {"none", "ok", "err"}
SelectFields == [msg : Labels, bind : Binds]

\* Output types of the selectable menus of the model.
OutputTypes == {"String", "Lower", "Exact"}

\* Lines the user may type on a selectable menu, terminator included.
SelectLines ==
    { <<"\n">>,
      <<"a", "\n">>,
      <<" ", "A", " ", "\n">>,
      <<"b", "\n">>,
      <<"b", "a", "\n">>,
      <<"0", "\n">>,
      <<"1", "\n">>,
      <<"2", "\n">>,
      <<"3", "\n">> }

RECURSIVE SeqsUpTo(_, _)
SeqsUpTo(S, n) ==
    IF n = 0 THEN {<<>>}
    ELSE SeqsUpTo(S, n - 1) \cup
         {Append(q, x) : q \in {r \in SeqsUpTo(S, n - 1) : Len(r) = n - 1}, x \in S}

\* Outcome of a step of select: the MenuResult and the 0-based indexes of the
\* options on which call_bind ran, in order.
Out(res, calls) == [res |-> res, calls |-> calls]

\* SelectField::call_bind followed by `parsed`: the binding's error ends the
\* step before the value is produced.
call_bind_then(fs, i, parsed) ==
    IF fs[i + 1].bind = "err"
    THEN Out(ErrResult("Bind", <<>>), <<i>>)
    ELSE Out(parsed, <<i>>)

\* field.msg.parse().map_err(err_ty); `dflt` tells the default's value from
\* a chosen one in the history tag of the result.
msg_parse(T, f, dflt) ==
    IF FromStr(T, f.msg).ok
    THEN IF dflt THEN Fallback(FromStr(T, f.msg).val) ELSE Accepted(FromStr(T, f.msg).val)
    ELSE ErrResult("incorrect default value type", <<>>)

\* (a default_parse that indexes the options without the bounds check)
menu_default_parse_unchecked(T, d, fs) ==
    IF d >= Len(fs)
    THEN Out(PanicResult(<<>>), <<>>)
    ELSE call_bind_then(fs, d, msg_parse(T, fs[d + 1], TRUE))

\* default_parse of menu.rs
menu_default_parse(T, d, fs) ==
    IF d >= Len(fs)
    THEN Out(ErrResult("incorrect default value index", <<>>), <<>>)
    ELSE call_bind_then(fs, d, msg_parse(T, fs[d + 1], TRUE))

\* The arms of select taken when the input chooses no option and the
\* default is looked at.
default_or_select_err(T, out, dflt, fs) ==
    IF dflt # <<>> THEN menu_default_parse(T, dflt[1], fs)
    ELSE Out(ErrResult("Select", out), <<>>)

\* fields.iter().find(|field| field.msg.to_lowercase() == out.to_lowercase()):
\* the 0-based index of the first such option, -1 when there is none.
find_label(fs, out) ==
    LET hits == {i \in 1..Len(fs) : to_lowercase(fs[i].msg) = to_lowercase(out)} IN
    IF hits = {} THEN -1
    ELSE (CHOOSE i \in hits : \A j \in hits : i <= j) - 1

\* (a select that tries the numeric index before the labels)
select_match_index_first(T, out, dflt, fs) ==
    LET i == find_label(fs, out)
        idx == IF FromStr("usize", out).ok THEN FromStr("usize", out).val.n ELSE 0
    IN
    IF idx >= 1 /\ idx - 1 < Len(fs)
    THEN call_bind_then(fs, idx - 1, msg_parse(T, fs[idx], FALSE))
    ELSE IF i >= 0 /\ FromStr(T, out).ok
         THEN call_bind_then(fs, i, Accepted(FromStr(T, out).val))
         ELSE IF i < 0 /\ FromStr("usize", out).ok
              THEN Out(ErrResult("Select", out), <<>>)
              ELSE default_or_select_err(T, out, dflt, fs)

\* (a select that takes the number typed as a 0-based index)
select_match_zero_based(T, out, dflt, fs) ==
    LET i == find_label(fs, out) IN
    IF i >= 0
    THEN IF FromStr(T, out).ok
         THEN call_bind_then(fs, i, Accepted(FromStr(T, out).val))
         ELSE default_or_select_err(T, out, dflt, fs)
    ELSE IF FromStr("usize", out).ok
         THEN LET idx == FromStr("usize", out).val.n IN
              IF idx < Len(fs)
              THEN call_bind_then(fs, idx, msg_parse(T, fs[idx + 1], FALSE))
              ELSE Out(ErrResult("Select", out), <<>>)
         ELSE default_or_select_err(T, out, dflt, fs)

\* The part of select after raw_read_input, on the trimmed input `out`.
select_match(T, out, dflt, fs) ==
    LET i == find_label(fs, out) IN
    IF i >= 0
    THEN IF FromStr(T, out).ok
         THEN call_bind_then(fs, i, Accepted(FromStr(T, out).val))
         ELSE default_or_select_err(T, out, dflt, fs)
    ELSE IF FromStr("usize", out).ok
         THEN LET idx == FromStr("usize", out).val.n IN
              IF idx >= 1
              THEN IF idx - 1 < Len(fs)
                   THEN call_bind_then(fs, idx - 1, msg_parse(T, fs[idx], FALSE))
                   ELSE Out(ErrResult("Select", out), <<>>)
              ELSE Out(ErrResult("Select", out), <<>>)
         ELSE default_or_select_err(T, out, dflt, fs)

\* select, from the outcome `res` of its writes and its read.
select(T, res, dflt, fs) ==
    IF ~res.ok THEN Out(ErrResult("IOError", <<>>), <<>>)
    ELSE select_match(T, res.s, dflt, fs)

\* (a next_output that never looks at the default when select fails)
NextOutputArmNoDefault(T, res, dflt, fs) ==
    IF select(T, res, dflt, fs).res.kind = "Ok"
    THEN select(T, res, dflt, fs)
    ELSE Out(NoResult, select(T, res, dflt, fs).calls)

\* (a next_output that returns the error of select when there is no default)
NextOutputArmSingle(T, res, dflt, fs) ==
    IF select(T, res, dflt, fs).res.kind = "Ok" \/ dflt = <<>>
    THEN select(T, res, dflt, fs)
    ELSE Out(menu_default_parse(T, dflt[1], fs).res,
             select(T, res, dflt, fs).calls \o menu_default_parse(T, dflt[1], fs).calls)

\* One iteration of the loop of next_output on the result of select: the
\* result of the call (NoResult when the loop goes round again) and the
\* options on which call_bind ran in this iteration.
NextOutputArm(T, res, dflt, fs) ==
    LET r == select(T, res, dflt, fs) IN
    IF r.res.kind = "Ok" THEN r
    ELSE IF dflt # <<>>
         THEN Out(menu_default_parse(T, dflt[1], fs).res,
                  r.calls \o menu_default_parse(T, dflt[1], fs).calls)
         ELSE Out(NoResult, r.calls)

\* The history of call_bind calls, kept to its first MaxCalls entries.
Logged(log, calls) ==
    IF Len(log \o calls) <= MaxCalls THEN log \o calls
    ELSE SubSeq(log \o calls, 1, MaxCalls)

\* SelectMenu::default: any index is stored, unchecked.
SelectMenu_default(d) == <<d>>

\* (a list that marks the option whose 1-based number is the default index)
DisplayFieldsMarkByNumber(fs, dflt) ==
    [k \in 1..Len(fs) |->
        [num |-> k, msg |-> fs[k].msg, marked |-> (dflt # <<>> /\ dflt[1] = k)]]

\* impl Display for SelectMenu, the options: one row for each, numbered from
\* 1, marked " (default)" when the default is Some(d) with d == i.
DisplayFields(fs, dflt) ==
    [k \in 1..Len(fs) |->
        [num |-> k, msg |-> fs[k].msg, marked |-> (dflt # <<>> /\ dflt[1] = k - 1)]]

SelectInit ==
    /\ pc = "list"
    /\ result = NoResult
    /\ eof = FALSE
    /\ shown = NotShown
    /\ prompts = 0
    /\ reads = 0
    /\ retries = 0
    /\ ty \in OutputTypes
    /\ details_default = <<>>
    /\ until = "keep"
    /\ entry = "build_until"
    /\ sep = ""
    /\ fields \in SeqsUpTo(SelectFields, MaxFields)
    /\ default \in {<<>>} \cup {SelectMenu_default(d) : d \in 0..MaxFields}
    /\ listed = 0
    /\ bound = <<>>
    /\ selected = Out(NoResult, <<>>)
    /\ rows = <<>>
    /\ title = <<>>
    /\ first_popped = FALSE
    /\ history = <<>>
    /\ FreshFormatting
    /\ NoEnv
    /\ NoAnswers
    /\ NoExample

\* A stream operation of select fails: `?` leaves select with the error.
SelectIoFailure ==
    /\ shown' = IoFailed
    /\ pc' = "smatch"

\* next_output: self.stream.write_all(format!("{}", self).as_bytes())?
WriteList ==
    /\ pc = "list"
    /\ \/ /\ pc' = "prefix"
          /\ listed' = listed + 1
          /\ rows' = rows \o DisplayFields(fields, default)
          /\ UNCHANGED <<result, shown>>
       \/ /\ pc' = "done"
          /\ result' = ErrResult("IOError", <<>>)
          /\ shown' = IoFailed
          /\ UNCHANGED <<listed, rows>>
    /\ UNCHANGED <<eof, prompts, reads, retries, fieldCfg, envVars, repeatVars, promptVars, fmtVars, valueMenu, menuCfg, bound, selected>>

\* select: stream.write_all(prefix.as_bytes())
WritePrefix ==
    /\ pc = "prefix"
    /\ \/ /\ pc' = "sflush"
          /\ prompts' = Bump(prompts)
          /\ shown' = NotShown
       \/ /\ SelectIoFailure
          /\ UNCHANGED prompts
    /\ selected' = Out(NoResult, <<>>)
    /\ UNCHANGED <<result, eof, reads, retries, fieldCfg, envVars, repeatVars, promptVars, fmtVars, valueMenu, menuCfg, listed, bound, rows>>

\* select: stream.flush()
SelectFlush ==
    /\ pc = "sflush"
    /\ \/ /\ pc' = "sread"
          /\ UNCHANGED shown
       \/ SelectIoFailure
    /\ UNCHANGED <<result, eof, prompts, reads, retries, fieldCfg, envVars, repeatVars, promptVars, fmtVars, valueMenu, menuVars>>

\* select: raw_read_input(stream, raw), the line read and trimmed as by
\* raw_read_input of field.rs
SelectRead ==
    /\ pc = "sread"
    /\ \/ \E l \in (IF eof THEN {} ELSE SelectLines) \cup {EndOfInput} :
            /\ shown' = [ok |-> TRUE, s |-> trim(l)]
            /\ eof' = (l = EndOfInput)
            /\ reads' = Bump(reads)
            /\ pc' = "smatch"
       \/ /\ SelectIoFailure
          /\ UNCHANGED <<eof, reads>>
    /\ UNCHANGED <<result, prompts, retries, fieldCfg, envVars, repeatVars, promptVars, fmtVars, valueMenu, menuVars>>

\* The rest of select and the match of next_output on its result.
SelectMatch ==
    /\ pc = "smatch"
    /\ LET r == NextOutputArm(ty, shown, default, fields) IN
        /\ result' = r.res
        /\ bound' = Logged(bound, r.calls)
        /\ selected' = select(ty, shown, default, fields)
        /\ IF r.res = NoResult
           THEN pc' = "prefix" /\ retries' = Bump(retries)
           ELSE pc' = "done" /\ UNCHANGED retries
    /\ UNCHANGED <<streamVars, fieldCfg, envVars, repeatVars, promptVars, fmtVars, valueMenu, menuCfg, listed, rows>>

SelectNext == WriteList \/ WritePrefix \/ SelectFlush \/ SelectRead \/ SelectMatch

SelectSpec == SelectInit /\ [][SelectNext]_vars

\* ------------------------------------------------ selected engine: claims

\* The line of the latest iteration of next_output has been read without a
\* stream failure and matched; shown.s is that line, trimmed.
SelectProcessed == reads > 0 /\ shown.ok /\ pc \in {"prefix", "done"}

\* The same, in the first iteration: `bound` is what that iteration called.
FirstProcessed == SelectProcessed /\ reads = 1

\* The text of the 1-based position of option i (0-based).
PositionText(i) == << CHOOSE c \in DigitChars : DigitVal(c) = i + 1 >>

\* What an iteration of next_output gives on the trimmed line x.
OnLine(x) == NextOutputArm(ty, [ok |-> TRUE, s |-> x], default, fields).res

\* The 0-based index of the first option whose label matches the line read,
\* and the number the line read stands for (0 when it is no number).
Matched == find_label(fields, shown.s)
Typed == IF FromStr("usize", shown.s).ok THEN FromStr("usize", shown.s).val.n ELSE 0

\* C9 (as claimed): for every option i, the outcome of next_output on the
\* label of option i in any letter casing is the outcome on the position
\* i + 1: the same value, or the same absence of one.
C9_LabelAndPositionAgree ==
    \A i \in 0..(Len(fields) - 1) :
        (SelectProcessed /\ to_lowercase(shown.s) = to_lowercase(fields[i + 1].msg))
            => /\ result.kind = OnLine(PositionText(i)).kind
               /\ result.val = OnLine(PositionText(i)).val

\* C10 (as claimed): a line that is the label of option i and the valid
\* 1-based number of another option j chooses option i: the binding of
\* option i is the one executed.
C10_LabelBeforeIndex ==
    \A i \in 0..(Len(fields) - 1) :
        (FirstProcessed /\ Matched = i /\ shown.s = fields[i + 1].msg
          /\ Typed >= 1 /\ Typed <= Len(fields) /\ Typed - 1 # i)
            => (bound # <<>> /\ Head(bound) = i)

\* C10 (amended): the label match is tried before the numeric index. A line
\* that matches a label and parses into the output type chooses the first
\* option with that label, also when the line is the valid number of
\* another option; a line that matches a label and does not parse into the
\* output type leaves the choice to the default, and runs no binding but the
\* default's; the index chooses only when no label matches.
C10_LabelBeforeIndexWhenParsed ==
    FirstProcessed =>
        /\ (Matched >= 0 /\ FromStr(ty, shown.s).ok) =>
                /\ bound # <<>> /\ Head(bound) = Matched
                /\ fields[Matched + 1].bind # "err" =>
                        (pc = "done" /\ result = Accepted(FromStr(ty, shown.s).val))
        /\ (Matched >= 0 /\ ~FromStr(ty, shown.s).ok) =>
                /\ result.via # "Accepted"
                /\ \A k \in 1..Len(bound) : default # <<>> /\ bound[k] = default[1]
        /\ (Matched < 0 /\ Typed >= 1 /\ Typed <= Len(fields)) =>
                (bound # <<>> /\ Head(bound) = Typed - 1)

\* C10 witness: the line "2" on the menu ("2", "a") of Strings chose option 0,
\* whose label it is, and not option 1, whose number it is.
C10_Witness ==
    /\ pc = "done" /\ reads = 1 /\ ty = "String" /\ Len(fields) = 2
    /\ fields[1].msg = <<"2">> /\ fields[1].bind = "ok"
    /\ fields[2].msg = <<"a">> /\ fields[2].bind = "ok"
    /\ shown = [ok |-> TRUE, s |-> <<"2">>]
    /\ bound = <<0>>
    /\ result = Accepted(TxtVal(<<"2">>))

\* C11: in select, a number n typed that matches no label chooses option
\* n - 1 exactly when 1 <= n <= number of options: the binding of that
\* option is the one select runs and the value, when there is one, is that
\* option's. On 0 and on n beyond the options select chooses nothing: it
\* runs no binding, does not panic, and returns the Select error with the
\* input.
C11_IndexChoosesInRange ==
    (SelectProcessed /\ Matched < 0 /\ FromStr("usize", shown.s).ok) =>
        IF Typed >= 1 /\ Typed <= Len(fields)
        THEN /\ selected.calls = <<Typed - 1>>
             /\ selected.res.kind # "Panic"
             /\ selected.res.kind = "Ok" =>
                    selected.res = Accepted(FromStr(ty, fields[Typed].msg).val)
             /\ (fields[Typed].bind # "err" /\ FromStr(ty, fields[Typed].msg).ok) =>
                    selected.res.kind = "Ok"
        ELSE selected = Out(ErrResult("Select", shown.s), <<>>)

\* C11 witness: the line "2" on the menu ("a", "B") chose the last option.
C11_Witness ==
    /\ FirstProcessed /\ Len(fields) = 2 /\ ty = "String"
    /\ fields[1].msg = <<"a">> /\ fields[2].msg = <<"B">>
    /\ shown.s = <<"2">>
    /\ selected = Out(Accepted(TxtVal(<<"B">>)), <<1>>)

\* The line read chooses no option: no label matches it and it is not the
\* 1-based number of an option.
Unmatched == Matched < 0 /\ ~(Typed >= 1 /\ Typed <= Len(fields))

\* The default index is configured and is the index of an option.
ValidDefault == default # <<>> /\ default[1] < Len(fields)

\* C12: with a valid default index d, next_output on a line that chooses no
\* option (empty, unknown text, 0, a number beyond the options) ends after
\* that single read, with one prompt written: it returns the value of
\* option d, after running the binding of option d alone; when that binding
\* fails or the label of option d is no value of the output type, the call
\* ends with the error, still after the single read.
C12_UnmatchedFallsBackToDefault ==
    (SelectProcessed /\ ValidDefault /\ Unmatched) =>
        /\ pc = "done" /\ reads = 1 /\ prompts = 1 /\ retries = 0
        /\ IF fields[default[1] + 1].bind # "err" /\ FromStr(ty, fields[default[1] + 1].msg).ok
           THEN /\ result = Fallback(FromStr(ty, fields[default[1] + 1].msg).val)
                /\ bound = <<default[1]>>
           ELSE result.kind = "Err"

\* C12 witness: the line "0" on the menu ("a", "B") with default index 1
\* returned "B" after one read.
C12_Witness ==
    /\ pc = "done" /\ reads = 1 /\ prompts = 1 /\ ty = "String"
    /\ Len(fields) = 2 /\ fields[1].msg = <<"a">> /\ fields[2].msg = <<"B">>
    /\ default = <<1>> /\ shown.s = <<"0">>
    /\ result = Fallback(TxtVal(<<"B">>))

\* C13 (as claimed): with no default index, next_output on a line that
\* chooses no option returns MenuError::Select carrying the trimmed line
\* (looked at on a menu that has options, on a line the user typed).
C13_UnmatchedReturnsSelectError ==
    (SelectProcessed /\ default = <<>> /\ Unmatched /\ fields # <<>> /\ ~eof) =>
        (pc = "done" /\ result = ErrResult("Select", shown.s))

\* C13 (amended): with no default index, on a line that chooses no option
\* select returns MenuError::Select carrying the trimmed line and runs no
\* binding; next_output does not return that error: it drops it and goes
\* round its loop, to write the prompt and read a line again.
C13_SelectErrorIsRetried ==
    (SelectProcessed /\ default = <<>> /\ Unmatched) =>
        /\ selected = Out(ErrResult("Select", shown.s), <<>>)
        /\ pc = "prefix" /\ result = NoResult /\ retries > 0

\* C13 witness: the line " A " on a menu with no option "a" and no default
\* made select return Select("A"), and the call is about to prompt again.
C13_Witness ==
    /\ pc = "prefix" /\ reads = 1 /\ default = <<>> /\ Len(fields) = 1
    /\ fields[1].msg = <<"B">>
    /\ shown.s = <<"A">>
    /\ selected = Out(ErrResult("Select", <<"A">>), <<>>)
    /\ result = NoResult

\* C14 (as claimed): a next_output (or next_output_with) call reads at most
\* one line and writes the prompt at most once, with or without a default:
\* a single attempt on a line that chooses no option ends the call.
C14_AtMostOneLine ==
    (SelectProcessed /\ Unmatched /\ fields # <<>> /\ ~eof) =>
        (pc = "done" /\ reads <= 1 /\ prompts <= 1)

\* C14 (amended): with a default index configured, a next_output (or
\* next_output_with) call never goes round its loop: it reads at most one
\* line, writes the prompt at most once, and ends on the first result of
\* select. With no default index, every attempt on which select returns an
\* error is followed by a new prompt, and the call ends only with the value
\* select returns or with the failure of writing the list.
C14_OneLineOnlyWithDefault ==
    /\ default # <<>> =>
            /\ reads <= 1 /\ prompts <= 1 /\ retries = 0
            /\ selected.res # NoResult => pc = "done"
    /\ default = <<>> =>
            /\ (selected.res.kind \notin {"None", "Ok"}) => (pc = "prefix" /\ retries > 0)
            /\ pc = "done" =>
                    \/ result.kind = "Ok" /\ result = selected.res
                    \/ listed = 0 /\ result = ErrResult("IOError", <<>>)

\* C14 witness: with no default, a call that returned a value read a line,
\* prompted again and read another one.
C14_Witness ==
    /\ default = <<>> /\ pc = "done" /\ result.kind = "Ok"
    /\ reads = 2 /\ prompts = 2 /\ retries > 0

\* C15 (as claimed): an I/O failure inside next_output (writing the list or
\* the prompt, flushing, reading) is the error the call returns: the call
\* does not prompt again and does not return the default option's value
\* (looked at on a menu with a valid default index).
C15_IoFailureIsReturned ==
    (shown = IoFailed /\ pc \in {"prefix", "done"} /\ ValidDefault) =>
        (pc = "done" /\ result = ErrResult("IOError", <<>>))

\* The 0-based index of the option the line read chooses, -1 when it chooses
\* none: the first option whose label it matches when it parses into the
\* output type, else the option whose 1-based number it is.
Chosen ==
    IF Matched >= 0
    THEN IF FromStr(ty, shown.s).ok THEN Matched ELSE -1
    ELSE IF Typed >= 1 /\ Typed <= Len(fields) THEN Typed - 1 ELSE -1

\* C17 (as claimed): when the binding of the option the line chose returns
\* an error, next_output ends with that error: no value is returned, the
\* default is not put in its place, no other binding runs and no other
\* line is read (looked at on a menu whose default is another option, one
\* whose binding does not fail).
C17_BindingErrorIsReturned ==
    (SelectProcessed /\ Chosen >= 0 /\ fields[Chosen + 1].bind = "err"
      /\ ValidDefault /\ default[1] # Chosen /\ fields[default[1] + 1].bind # "err") =>
        /\ pc = "done" /\ reads = 1
        /\ result = ErrResult("Bind", <<>>)
        /\ bound = <<Chosen>>

\* The binding invocations of the call: the call_bind calls on options that
\* carry a binding, in order.
Invoked == SelectSeq(bound, LAMBDA k : fields[k + 1].bind # "none")

\* The option whose value the call returned: the default's on a fallback,
\* else the one the last line chose.
Returned == IF result.via = "Fallback" THEN default[1] ELSE Chosen

\* C16 (as claimed): in a next_output call that returns a value, the
\* binding invocations of the whole call are exactly one, that of the
\* option whose value is returned (none when that option carries no
\* binding); and an attempt in which no option is matched and no default is
\* configured invokes no binding (looked at on menus of String values,
\* where every label is a value).
C16_ExactlyOneBinding ==
    /\ (pc = "done" /\ result.kind = "Ok" /\ ty = "String") =>
            Invoked = IF fields[Returned + 1].bind = "none" THEN <<>> ELSE <<Returned>>
    /\ (SelectProcessed /\ default = <<>> /\ Unmatched) => selected.calls = <<>>

\* C18: in one next_output call the option list is written once, before the
\* first prompt, however many prompts follow; it has a row for each option,
\* in order, the option at position i (0-based) numbered i + 1 with its
\* label; the "(default)" marker is on the row of the option at the default
\* index and on no other, so on none when there is no default or when the
\* default index is not the index of an option.
C18_ListWrittenOnce ==
    /\ listed <= 1
    /\ prompts > 0 => listed = 1
    /\ listed = 0 => rows = <<>>
    /\ listed = 1 =>
            /\ Len(rows) = Len(fields)
            /\ \A i \in 0..(Len(fields) - 1) :
                    /\ rows[i + 1].num = i + 1
                    /\ rows[i + 1].msg = fields[i + 1].msg
                    /\ rows[i + 1].marked <=> default = <<i>>
            /\ ~ValidDefault => \A k \in 1..Len(rows) : ~rows[k].marked

\* C18 witness: the menu ("a", "B") with default index 1 wrote its list once,
\* with the marker on the row numbered 2 alone, and the call has ended.
C18_Witness ==
    /\ pc = "done" /\ prompts = 1 /\ listed = 1 /\ default = <<1>>
    /\ rows = <<[num |-> 1, msg |-> <<"a">>, marked |-> FALSE],
                [num |-> 2, msg |-> <<"B">>, marked |-> TRUE]>>

\* C19: SelectMenu::default stores any index; a default index that is not
\* the index of an option is found out when the default is needed. A
\* next_output call in which select did not return a value then ends with
\* the usage error "incorrect default value index": it does not panic, and
\* looking up the default runs no binding (the only binding that can have
\* run is that of the option the line chose, before the default was needed).
C19_BadDefaultIndexIsUsageError ==
    (default # <<>> /\ default[1] >= Len(fields)
      /\ selected.res.kind \notin {"None", "Ok"}) =>
        /\ pc = "done"
        /\ result = ErrResult("incorrect default value index", <<>>)
        /\ bound = selected.calls
        /\ bound = IF shown.ok /\ Chosen >= 0 THEN <<Chosen>> ELSE <<>>

\* C19 witness: the menu ("a") built with default index 2 prompted, read the
\* unknown line "b" and ended with the usage error, no binding run.
C19_Witness ==
    /\ pc = "done" /\ reads = 1 /\ Len(fields) = 1 /\ fields[1].msg = <<"a">>
    /\ default = SelectMenu_default(2)
    /\ shown.s = <<"b">>
    /\ result = ErrResult("incorrect default value index", <<>>)
    /\ bound = <<>>

\* -------------------------------------------------------------- ValueMenu

\* What a field build comes to: a value or an error.
BuildOutcomes == {"Ok", "Err"}

\* (a print_title that does not set the flag)
print_title_no_flag(ttl, popped, io_ok) ==
    IF ~popped /\ ttl # <<>>
    THEN IF io_ok
         THEN [ok |-> TRUE, popped |-> popped, wrote |-> TRUE]
         ELSE [ok |-> FALSE, popped |-> popped, wrote |-> FALSE]
    ELSE [ok |-> TRUE, popped |-> popped, wrote |-> FALSE]

\* print_title, with `io_ok` the outcome of its write: whether it returned
\* Ok, the flag it leaves, whether the title went out.
print_title(ttl, popped, io_ok) ==
    IF ~popped /\ ttl # <<>>
    THEN IF io_ok
         THEN [ok |-> TRUE, popped |-> TRUE, wrote |-> TRUE]
         ELSE [ok |-> FALSE, popped |-> popped, wrote |-> FALSE]
    ELSE [ok |-> TRUE, popped |-> popped, wrote |-> FALSE]

\* (a next_field that leaves the field in the iterator)
next_field_peek(fs) ==
    IF fs = <<>>
    THEN [ok |-> FALSE, field |-> 0, rest |-> fs]
    ELSE [ok |-> TRUE, field |-> Head(fs), rest |-> fs]

\* ValueMenu::next_field: self.fields.next().ok_or(MenuError::NoMoreField)
next_field(fs) ==
    IF fs = <<>>
    THEN [ok |-> FALSE, field |-> 0, rest |-> fs]
    ELSE [ok |-> TRUE, field |-> Head(fs), rest |-> Tail(fs)]

\* Field::menu_build: the field prompts and reads on the stream, and gives
\* its value or its error.
menu_build(f, outcome) ==
    [field |-> f, asked |-> TRUE, res |-> IF outcome = "Ok" THEN "Ok" ELSE "BuildErr"]

\* Field::menu_build_or_default: the same, an error becoming Output::default().
menu_build_or_default(f, outcome) ==
    [field |-> f, asked |-> TRUE, res |-> IF outcome = "Ok" THEN "Ok" ELSE "Default"]

\* (a next_output that puts the field back when building it fails)
next_output_body_keeps_failed(t, fs, outcome) ==
    IF ~t.ok
    THEN [field |-> 0, asked |-> FALSE, res |-> "IOError", rest |-> fs]
    ELSE IF ~next_field(fs).ok
         THEN [field |-> 0, asked |-> FALSE, res |-> "NoMoreField", rest |-> next_field(fs).rest]
         ELSE [field |-> next_field(fs).field, asked |-> TRUE,
               res |-> menu_build(next_field(fs).field, outcome).res,
               rest |-> IF outcome = "Ok" THEN next_field(fs).rest ELSE fs]

\* The body of ValueMenu::next_output / next_output_with after print_title
\* returned `t`, on the iterator `fs`: what the call did and returned, and
\* the iterator it leaves.
next_output_body(t, fs, outcome) ==
    IF ~t.ok
    THEN [field |-> 0, asked |-> FALSE, res |-> "IOError", rest |-> fs]
    ELSE IF ~next_field(fs).ok
         THEN [field |-> 0, asked |-> FALSE, res |-> "NoMoreField", rest |-> next_field(fs).rest]
         ELSE [field |-> next_field(fs).field, asked |-> TRUE,
               res |-> menu_build(next_field(fs).field, outcome).res,
               rest |-> next_field(fs).rest]

\* The body of ValueMenu::next_or_default / next_or_default_with.
next_or_default_body(t, fs, outcome) ==
    IF ~t.ok
    THEN [field |-> 0, asked |-> FALSE, res |-> "Default", rest |-> fs]
    ELSE IF ~next_field(fs).ok
         THEN [field |-> 0, asked |-> FALSE, res |-> "Default", rest |-> next_field(fs).rest]
         ELSE [field |-> next_field(fs).field, asked |-> TRUE,
               res |-> menu_build_or_default(next_field(fs).field, outcome).res,
               rest |-> next_field(fs).rest]

\* The entry of `history` for a call.
Call(op, t, b) ==
    [op |-> op,
     title |-> IF t.wrote THEN "written" ELSE IF t.ok THEN "none" ELSE "failed",
     field |-> b.field, asked |-> b.asked, res |-> b.res]

\* ValueMenu::from / new, then title(): n fields in construction order,
\* numbered 1..n, an empty title unless one was given.
MenuInit ==
    /\ pc = "menu"
    /\ result = NoResult
    /\ eof = FALSE
    /\ shown = NotShown
    /\ prompts = 0
    /\ reads = 0
    /\ retries = 0
    /\ ty = "String"
    /\ details_default = <<>>
    /\ until = "keep"
    /\ entry = "build_until"
    /\ sep = ""
    /\ fields \in {[k \in 1..n |-> k] : n \in 0..MaxFields}
    /\ default = <<>>
    /\ listed = 0
    /\ bound = <<>>
    /\ selected = Out(NoResult, <<>>)
    /\ rows = <<>>
    /\ title \in {<<>>, <<"T">>}
    /\ first_popped = FALSE
    /\ history = <<>>
    /\ FreshFormatting
    /\ NoEnv
    /\ NoAnswers
    /\ NoExample

\* ValueMenu::next_output and next_output_with
NextOutput ==
    /\ pc = "menu" /\ Len(history) < MaxMenuCalls
    /\ \E op \in {"next_output", "next_output_with"}, io_ok \in BOOLEAN, outcome \in BuildOutcomes :
        LET t == print_title(title, first_popped, io_ok)
            b == next_output_body(t, fields, outcome)
        IN
        /\ first_popped' = t.popped
        /\ fields' = b.rest
        /\ history' = Append(history, Call(op, t, b))
    /\ UNCHANGED <<pc, result, streamVars, retries, fieldCfg, envVars, repeatVars, promptVars, fmtVars, default, listed, bound,
                   selected, rows, title>>

\* ValueMenu::next_or_default and next_or_default_with
NextOrDefault ==
    /\ pc = "menu" /\ Len(history) < MaxMenuCalls
    /\ \E op \in {"next_or_default", "next_or_default_with"}, io_ok \in BOOLEAN, outcome \in BuildOutcomes :
        LET t == print_title(title, first_popped, io_ok)
            b == next_or_default_body(t, fields, outcome)
        IN
        /\ first_popped' = t.popped
        /\ fields' = b.rest
        /\ history' = Append(history, Call(op, t, b))
    /\ UNCHANGED <<pc, result, streamVars, retries, fieldCfg, envVars, repeatVars, promptVars, fmtVars, default, listed, bound,
                   selected, rows, title>>

MenuNext == NextOutput \/ NextOrDefault

MenuSpec == MenuInit /\ [][MenuNext]_vars

\* ------------------------------------------------------- ValueMenu claims

\* The number of fields taken by the first k calls, and the number of fields
\* the menu was built with.
Taken(k) == Cardinality({j \in 1..k : history[j].field # 0})
FieldCount == Len(fields) + Taken(Len(history))

\* C20 (as claimed): the k-th retrieval call builds the k-th field for k up
\* to the number of fields, and every next_output call after that returns
\* NoMoreField without prompting or reading (looked at on the calls in which
\* writing the title did not fail).
C20_KthCallBuildsKthField ==
    \A k \in 1..Len(history) :
        history[k].title # "failed" =>
            /\ k <= FieldCount => history[k].field = k
            /\ (k > FieldCount /\ history[k].op \in {"next_output", "next_output_with"}) =>
                    (history[k].res = "NoMoreField" /\ ~history[k].asked)

\* C20 (amended): the fields are built in construction order, each at most
\* once: a retrieval call (next_output or next_or_default, in any mix) in
\* which writing the title does not fail builds the first field no earlier
\* call has taken, whatever that build comes to; a call in which writing the
\* title fails takes no field, so the k-th call builds the k-th field only
\* when no earlier call failed on the title. Once every field is taken, a
\* call builds nothing, does not prompt or read, and next_output returns
\* NoMoreField.
C20_FieldsInOrderOnce ==
    /\ \A k \in 1..Len(history) :
            /\ history[k].title = "failed" =>
                    (history[k].field = 0 /\ ~history[k].asked)
            /\ (history[k].title # "failed" /\ Taken(k - 1) < FieldCount) =>
                    (history[k].field = Taken(k - 1) + 1 /\ history[k].asked)
            /\ (history[k].title # "failed" /\ Taken(k - 1) = FieldCount) =>
                    /\ history[k].field = 0 /\ ~history[k].asked
                    /\ history[k].title = "none" \/ FieldCount = 0
                    /\ history[k].op \in {"next_output", "next_output_with"} =>
                            history[k].res = "NoMoreField"
    /\ \A j \in 1..Len(fields) : fields[j] = Taken(Len(history)) + j

\* C20 witness: on a menu of two fields with a title, the first call failed
\* on the title, and the second and third calls built fields 1 and 2.
C20_Witness ==
    /\ Len(history) = 3 /\ fields = <<>>
    /\ history[1].title = "failed" /\ history[1].field = 0
    /\ history[2].op = "next_or_default" /\ history[2].field = 1
    /\ history[3].op = "next_output" /\ history[3].field = 2

\* The calls, among the first k, in which the title was written.
TitleWrites(k) == {j \in 1..k : history[j].title = "written"}

\* C21: over any sequence of next_output, next_output_with, next_or_default
\* and next_or_default_with calls on a ValueMenu, a non-empty title is
\* written at most once, and no field is built (so no field prompt is
\* written) before the title was written, in that call or in an earlier one;
\* with an empty title no call writes anything for it.
C21_TitleWrittenOnceFirst ==
    /\ Cardinality(TitleWrites(Len(history))) <= 1
    /\ first_popped <=> TitleWrites(Len(history)) # {}
    /\ title = <<>> => \A k \in 1..Len(history) : history[k].title = "none"
    /\ title # <<>> =>
            \A k \in 1..Len(history) : history[k].asked => TitleWrites(k) # {}

\* C21 witness: three calls of three kinds on a titled menu of two fields;
\* the first wrote the title and built field 1, the others wrote no title.
C21_Witness ==
    /\ title # <<>> /\ Len(history) = 3
    /\ history[1].op = "next_or_default_with" /\ history[1].title = "written"
    /\ history[1].field = 1
    /\ history[2].op = "next_output" /\ history[2].title = "none" /\ history[2].field = 2
    /\ history[3].op = "next_output_with" /\ history[3].title = "none"

\* ------------------------------------------------- formatting inheritance

\* The formatting state of the ValueField, and that of the SelectTitle.
FieldFormatting == [fmt |-> fmt, custom_fmt |-> custom_fmt, show_d |-> show_d]
TitleFormatting == [fmt |-> title_fmt, custom_fmt |-> title_custom_fmt]

\* (a set_fmt that leaves the hint flag of the details as it was)
set_fmt_keeps_show_d(s, f) == [s EXCEPT !.fmt = f]

\* ValueField::set_fmt
set_fmt(s, f) == [s EXCEPT !.fmt = f, !.show_d = f.default]

\* ValueField::fmt
ValueField_fmt(s, f) == [set_fmt(s, f) EXCEPT !.custom_fmt = TRUE]

\* (an inherit_fmt that does not look at custom_fmt)
inherit_fmt_always(s, f) == set_fmt(s, f)

\* (an inherit_fmt after which the field counts as custom)
inherit_fmt_sticky(s, f) ==
    IF ~s.custom_fmt THEN [set_fmt(s, f) EXCEPT !.custom_fmt = TRUE] ELSE s

\* ValueField::inherit_fmt
inherit_fmt(s, f) == IF ~s.custom_fmt THEN set_fmt(s, f) ELSE s

\* SelectTitle::fmt
SelectTitle_fmt(s, f) == [fmt |-> f, custom_fmt |-> TRUE]

\* SelectTitle::inherit_fmt (through Field::inherit_fmt and
\* SelectMenu::inherit_fmt)
SelectTitle_inherit_fmt(s, f) ==
    [fmt |-> [chip |-> f.chip, new_line |-> f.new_line, default |-> f.default,
              prefix |-> s.fmt.prefix],
     custom_fmt |-> FALSE]

\* A ValueField and the title of a SelectMenu, before they are put in a
\* ValueMenu.
FmtInit ==
    /\ pc = "field"
    /\ result = NoResult
    /\ eof = FALSE
    /\ shown = NotShown
    /\ prompts = 0
    /\ reads = 0
    /\ retries = 0
    /\ ty = "String"
    /\ details_default = <<>>
    /\ until = "keep"
    /\ entry = "build_until"
    /\ sep = ""
    /\ fields = <<>>
    /\ default = <<>>
    /\ listed = 0
    /\ bound = <<>>
    /\ selected = Out(NoResult, <<>>)
    /\ rows = <<>>
    /\ title = <<>>
    /\ first_popped = FALSE
    /\ history = <<>>
    /\ FreshFormatting
    /\ NoEnv
    /\ NoAnswers
    /\ NoExample

\* The formatting variables after the field became s and the title ts.
Formatted(s, ts) ==
    /\ fmt' = s.fmt
    /\ custom_fmt' = s.custom_fmt
    /\ show_d' = s.show_d
    /\ title_fmt' = ts.fmt
    /\ title_custom_fmt' = ts.custom_fmt

\* ValueField::fmt, with a format in which the caller set the properties of
\* `set`.
FieldFmt ==
    /\ pc = "field"
    /\ \E set \in SUBSET Props, f \in Formattings :
        /\ f = Constructed(set, f)
        /\ Formatted(ValueField_fmt(FieldFormatting, f), TitleFormatting)
        /\ given' = <<[fmt |-> f, set |-> set]>>
    /\ UNCHANGED <<pc, result, streamVars, retries, fieldCfg, envVars, repeatVars, promptVars, menuVars, valueMenu,
                   title_given, menu_fmt, inherits>>

\* SelectTitle::fmt
TitleFmt ==
    /\ pc = "field"
    /\ \E f \in Formattings :
        /\ Formatted(FieldFormatting, SelectTitle_fmt(TitleFormatting, f))
        /\ title_given' = <<f>>
    /\ UNCHANGED <<pc, result, streamVars, retries, fieldCfg, envVars, repeatVars, promptVars, menuVars, valueMenu,
                   given, menu_fmt, inherits>>

\* ValueMenu::inner_new: the menu starts with the default format and has
\* every field inherit it.
InnerNew ==
    /\ pc = "field"
    /\ pc' = "in_menu"
    /\ menu_fmt' = DefaultFormatting
    /\ Formatted(inherit_fmt(FieldFormatting, DefaultFormatting),
                 SelectTitle_inherit_fmt(TitleFormatting, DefaultFormatting))
    /\ inherits' = inherits + 1
    /\ UNCHANGED <<result, streamVars, retries, fieldCfg, envVars, repeatVars, promptVars, menuVars, valueMenu,
                   given, title_given>>

\* ValueMenu::fmt: the menu takes the format and has every field inherit it.
MenuFmt ==
    /\ pc = "in_menu" /\ inherits < MaxInherits
    /\ \E f \in Formattings :
        /\ menu_fmt' = f
        /\ Formatted(inherit_fmt(FieldFormatting, f),
                     SelectTitle_inherit_fmt(TitleFormatting, f))
    /\ inherits' = inherits + 1
    /\ UNCHANGED <<pc, result, streamVars, retries, fieldCfg, envVars, repeatVars, promptVars, menuVars, valueMenu,
                   given, title_given>>

FmtNext == FieldFmt \/ TitleFmt \/ InnerNew \/ MenuFmt

FmtSpec == FmtInit /\ [][FmtNext]_vars

\* ------------------------------------------------------ formatting claims

\* C22 (as claimed): after a parent format was applied to a field that was
\* given its own format, each property of the field's format is the child's
\* value if the caller set that property in the child's format, and the
\* parent's value otherwise (looked at where the caller set some property).
C22_MergePerProperty ==
    (pc = "in_menu" /\ given # <<>> /\ given[1].set # {}) =>
        \A p \in Props :
            fmt[p] = IF p \in given[1].set THEN given[1].fmt[p] ELSE menu_fmt[p]

\* C22 (amended): the format is overridden as a whole, not property by
\* property. A field given its own format with ValueField::fmt keeps that
\* format entire, before and after any parent format is applied: a property
\* the caller set has the caller's value, and a property the caller did not
\* set has the value of ValueFieldFormatting::default(), never the parent's.
\* A field that was given no format of its own has the parent's format
\* entire.
C22_MergeWholeFormat ==
    /\ given # <<>> =>
            /\ custom_fmt
            /\ \A p \in Props :
                    fmt[p] = IF p \in given[1].set THEN given[1].fmt[p]
                             ELSE DefaultFormatting[p]
    /\ (given = <<>> /\ pc = "in_menu") => (~custom_fmt /\ fmt = menu_fmt)

\* C22 witness: a field given the format chip("* ") sits in a menu whose
\* format has the prefix ":" and no new line; the field has its own chip
\* and the default prefix and new line, not the menu's.
C22_Witness ==
    /\ pc = "in_menu" /\ inherits = 2
    /\ given = <<[fmt |-> [DefaultFormatting EXCEPT !.chip = "* "], set |-> {"chip"}]>>
    /\ menu_fmt = [chip |-> "--> ", prefix |-> ":", new_line |-> FALSE, default |-> TRUE]
    /\ fmt = [chip |-> "* ", prefix |-> ">> ", new_line |-> TRUE, default |-> TRUE]

\* C23: for a ValueField, inheritance is idempotent and order-independent.
\* A step that applies again the parent format already applied leaves the
\* field as it is; a field given a custom format has exactly that format
\* after any number of inherit_fmt calls with any parents; a field without
\* a custom format has, after the initial format of the menu and the
\* formats of the ValueMenu::fmt calls, the last of them, as after
\* inheriting that one alone.
C23_InheritIdempotent ==
    /\ [](given # <<>> => (custom_fmt /\ fmt = given[1].fmt /\ show_d = given[1].fmt.default))
    /\ []((given = <<>> /\ pc = "in_menu") =>
            FieldFormatting = inherit_fmt(
                [fmt |-> DefaultFormatting, custom_fmt |-> FALSE, show_d |-> TRUE], menu_fmt))
    /\ []((given = <<>> /\ pc = "in_menu") => (fmt = menu_fmt /\ show_d = menu_fmt.default))
    /\ [][(pc = "in_menu" /\ inherits' = inherits + 1 /\ menu_fmt' = menu_fmt) =>
            (fmt' = fmt /\ custom_fmt' = custom_fmt /\ show_d' = show_d)]_vars

\* C23 witness: a field without a custom format, after inner_new and two
\* ValueMenu::fmt calls, has the menu's last format, which is not the
\* initial one.
C23_Witness ==
    /\ pc = "in_menu" /\ inherits = 3 /\ given = <<>> /\ ~custom_fmt
    /\ menu_fmt = [chip |-> "* ", prefix |-> ":", new_line |-> FALSE, default |-> FALSE]
    /\ fmt = menu_fmt /\ show_d = FALSE

\* C24 (as claimed): the title of a SelectMenu used as a field of a
\* ValueMenu keeps its own prefix under inheritance, and a title whose
\* format was set with SelectTitle::fmt keeps its own chip, new_line and
\* default, and its custom_fmt flag, whatever the format of the menu.
C24_TitleKeepsOwnFormat ==
    pc = "in_menu" =>
        /\ title_fmt.prefix = IF title_given # <<>> THEN title_given[1].prefix ELSE ":"
        /\ title_given # <<>> =>
                /\ title_custom_fmt
                /\ title_fmt.chip = title_given[1].chip
                /\ title_fmt.new_line = title_given[1].new_line
                /\ title_fmt.default = title_given[1].default

\* ----------------------------------------------------------- default_env

\* The name of the environment variable, and what it can hold.
VarName == <<"V">>
EnvValues == {<<>>, << <<"9">> >>, << <<"x", "y">> >>}

\* (a DefaultValue::env that takes an absent variable for an empty text)
DefaultValue_env_unchecked(e) ==
    IF e = <<>>
    THEN [ok |-> TRUE, val |-> [kind |-> "Env", s |-> <<>>]]
    ELSE [ok |-> TRUE, val |-> [kind |-> "Env", s |-> e[1]]]

\* DefaultValue::env on a variable that holds `e`: env::var(var), its error
\* mapped to MenuError::EnvVar(var, e).
DefaultValue_env(e) ==
    IF e = <<>>
    THEN [ok |-> FALSE, val |-> [kind |-> "Env", s |-> <<>>]]
    ELSE [ok |-> TRUE, val |-> [kind |-> "Env", s |-> e[1]]]

\* A ValueField::from(msg) on which default_env(var) is about to be called.
EnvInit ==
    /\ pc = "new"
    /\ result = NoResult
    /\ eof = FALSE
    /\ shown = NotShown
    /\ prompts = 0
    /\ reads = 0
    /\ retries = 0
    /\ ty \in FieldTypes
    /\ details_default = <<>>
    /\ until \in Predicates
    /\ entry = "build_until"
    /\ sep = ""
    /\ fields = <<>>
    /\ default = <<>>
    /\ listed = 0
    /\ bound = <<>>
    /\ selected = Out(NoResult, <<>>)
    /\ rows = <<>>
    /\ title = <<>>
    /\ first_popped = FALSE
    /\ history = <<>>
    /\ FreshFormatting
    /\ env \in EnvValues
    /\ env_at_new = <<>>
    /\ NoAnswers
    /\ NoExample

\* ValueField::default_env: Err(EnvVar) and no field, or the field with the
\* text of the variable as its default, ready to be built.
DefaultEnv ==
    /\ pc = "new"
    /\ env_at_new' = <<env>>
    /\ IF DefaultValue_env(env).ok
       THEN /\ details_default' = <<DefaultValue_env(env).val>>
            /\ pc' = "write"
            /\ UNCHANGED result
       ELSE /\ result' = ErrResult("EnvVar", VarName)
            /\ pc' = "done"
            /\ UNCHANGED details_default
    /\ UNCHANGED <<streamVars, retries, ty, until, entry, sep, fmtVars, valueMenu, menuVars, env,
                   repeatVars, promptVars>>

\* The environment changes under the program.
SetEnv ==
    /\ \E e \in EnvValues : e # env /\ env' = e
    /\ UNCHANGED <<pc, result, streamVars, retries, fieldCfg, fmtVars, valueMenu, menuVars,
                   env_at_new, repeatVars, promptVars>>

EnvNext == DefaultEnv \/ SetEnv \/ FieldNext

EnvSpec == EnvInit /\ [][EnvNext]_vars

\* C25: ValueField::default_env looks the variable up at construction, and
\* nothing looks it up later. When the variable is absent then, the result
\* is the EnvVar error carrying the variable's name and there is no field:
\* nothing is prompted or read. When it is present, the text it held then
\* is the field's default in every later build: a fallback returns that
\* text parsed (or aborts on it), whatever the variable holds by then.
C25_EnvReadOnceAtConstruction ==
    /\ pc = "new" <=> env_at_new = <<>>
    /\ env_at_new = << <<>> >> =>
            /\ pc = "done" /\ result = ErrResult("EnvVar", VarName)
            /\ details_default = <<>> /\ prompts = 0 /\ reads = 0
    /\ (env_at_new # <<>> /\ env_at_new[1] # <<>>) =>
            /\ details_default = <<[kind |-> "Env", s |-> env_at_new[1][1]]>>
            /\ result.via = "Fallback" =>
                    result = Fallback(FromStr(ty, env_at_new[1][1]).val)
            /\ result.kind = "Panic" =>
                    (result.raw = env_at_new[1][1] /\ ~FromStr(ty, env_at_new[1][1]).ok)
            /\ result.kind = "Err" => result.err # "EnvVar"

\* C25 witness: the variable held "9" at construction and was removed
\* afterwards; the build of the u8 field fell back to 9.
C25_Witness ==
    /\ env_at_new = << << <<"9">> >> >> /\ env = <<>>
    /\ ty = "u8" /\ pc = "done"
    /\ result = Fallback(NumVal(9))

C27_DefaultResolvedLazily ==
    /\ (Processed /\ HasDefault /\ ~FromStr(ty, details_default[1].s).ok /\ LineKept) =>
            (pc = "done" /\ result = Accepted(LineValue))
    /\ result.kind = "Panic" => (shown.ok /\ reads > 0 /\ ~LineParses)

\* C27 witness: a u8 field with the default "xy" read "7" and returned 7.
C27_Witness ==
    /\ pc = "done" /\ ty = "u8" /\ reads = 1
    /\ details_default = <<[kind |-> "Value", s |-> <<"x", "y">>]>>
    /\ shown = [ok |-> TRUE, s |-> <<"7">>]
    /\ result = Accepted(NumVal(7))

\* ------------------------------------------------- build_or_default_with

\* T::default() of the target types: 0, the empty String, and for the
\* enums their first word.
TypeDefault(T) ==
    CASE T = "u8" -> NumVal(0)
      [] T = "String" -> TxtVal(<<>>)
      [] OTHER -> TxtVal(<<"a">>)

\* A value that is the Default of the type, not read and not configured.
Defaulted(v) == [kind |-> "Ok", val |-> v, err |-> "", raw |-> <<>>, via |-> "Default"]

\* FieldDetails::try_default: self.default.as_ref().map(default_parse)
\* .unwrap_or_default()
try_default(T, d) ==
    IF d # <<>> THEN default_parse(T, d[1]) ELSE Defaulted(TypeDefault(T))

\* (a build_or_default_with that returns the failure of the stream)
BuildOrDefaultPropagates(T, res, d) ==
    IF build_once(T, res).q = "Finished" THEN Accepted(build_once(T, res).val)
    ELSE IF build_once(T, res).q = "Err" THEN ErrResult("IOError", <<>>)
    ELSE try_default(T, d)

\* The match of build_or_default_with on the Query of build_once.
BuildOrDefault(T, res, d) ==
    IF build_once(T, res).q = "Finished" THEN Accepted(build_once(T, res).val)
    ELSE try_default(T, d)

\* A ValueField on which build_or_default_with is called.
OrDefaultInit ==
    /\ pc = "write"
    /\ result = NoResult
    /\ eof = FALSE
    /\ shown = NotShown
    /\ prompts = 0
    /\ reads = 0
    /\ retries = 0
    /\ ty \in FieldTypes
    /\ details_default \in {<<>>} \cup {<<d>> : d \in DefaultValues}
    /\ until = "keep"
    /\ entry = "build_or_default_with"
    /\ sep = ""
    /\ fields = <<>>
    /\ default = <<>>
    /\ listed = 0
    /\ bound = <<>>
    /\ selected = Out(NoResult, <<>>)
    /\ rows = <<>>
    /\ title = <<>>
    /\ first_popped = FALSE
    /\ history = <<>>
    /\ FreshFormatting
    /\ NoEnv
    /\ NoAnswers
    /\ NoExample

\* build_or_default_with after build_once: the value, at once.
MatchOrDefault ==
    /\ pc = "match" /\ entry = "build_or_default_with"
    /\ result' = BuildOrDefault(ty, shown, details_default)
    /\ pc' = "done"
    /\ UNCHANGED <<streamVars, retries, fieldCfg, fmtVars, envVars, repeatVars, promptVars, valueMenu, menuVars>>

OrDefaultNext == WritePrompt \/ Flush \/ ReadLine \/ WriteNl \/ MatchOrDefault

OrDefaultSpec == OrDefaultInit /\ [][OrDefaultNext]_vars

SelectPrefixes == {">> ", ": "}

\* The selectable menus that are asked repeatedly.
RepeatMenus ==
    { <<[msg |-> <<"a">>, bind |-> "ok"], [msg |-> <<"2">>, bind |-> "err"]>>,
      <<[msg |-> <<"B">>, bind |-> "none"], [msg |-> <<"a">>, bind |-> "ok"]>> }

\* (a next_output that consumes an option, as the value-menu consumes a field)
next_output_consumes(fs, dflt, pre) ==
    [fields |-> IF fs = <<>> THEN fs ELSE Tail(fs), default |-> dflt, prefix |-> pre]

\* The menu as next_output leaves it: select is given self.prefix and
\* self.default by copy and &self.fields, and nothing else of the menu but
\* the stream is touched.
next_output_leaves(fs, dflt, pre) ==
    [fields |-> fs, default |-> dflt, prefix |-> pre]

\* The answer of a call that returned on the line `line`.
Answer(line, res, fs, dflt, pre) ==
    [line |-> line, res |-> res, menu |-> <<fs, dflt, pre>>]

RepeatInit ==
    /\ pc = "list"
    /\ result = NoResult
    /\ eof = FALSE
    /\ shown = NotShown
    /\ prompts = 0
    /\ reads = 0
    /\ retries = 0
    /\ ty \in OutputTypes
    /\ details_default = <<>>
    /\ until = "keep"
    /\ entry = "build_until"
    /\ sep = ""
    /\ fields \in RepeatMenus
    /\ default \in {<<>>} \cup {SelectMenu_default(d) : d \in 0..1}
    /\ listed = 0
    /\ bound = <<>>
    /\ selected = Out(NoResult, <<>>)
    /\ rows = <<>>
    /\ title = <<>>
    /\ first_popped = FALSE
    /\ history = <<>>
    /\ FreshFormatting
    /\ NoEnv
    /\ prefix \in SelectPrefixes
    /\ answers = {}
    /\ NoExample

\* next_output has returned and is called again on the same menu and the
\* same stream (no call follows one that panicked); what the model counts,
\* it counts for each call.
NextOutputAgain ==
    /\ pc = "done" /\ result.kind # "Panic"
    /\ pc' = "list"
    /\ result' = NoResult
    /\ shown' = NotShown
    /\ prompts' = 0 /\ reads' = 0 /\ retries' = 0
    /\ listed' = 0 /\ rows' = <<>> /\ bound' = <<>>
    /\ selected' = Out(NoResult, <<>>)
    /\ answers' =
            IF /\ shown.ok
               /\ Cardinality(answers) < MaxRepeats
               /\ \A a \in answers : a.line # shown.s
            THEN answers \cup {Answer(shown.s, result, fields, default, prefix)}
            ELSE answers
    /\ fields' = next_output_leaves(fields, default, prefix).fields
    /\ default' = next_output_leaves(fields, default, prefix).default
    /\ prefix' = next_output_leaves(fields, default, prefix).prefix
    /\ UNCHANGED <<eof, fieldCfg, envVars, promptVars, fmtVars, valueMenu>>

RepeatNext == SelectNext \/ NextOutputAgain

RepeatSpec == RepeatInit /\ [][RepeatNext]_vars

Separators == {" ", ","}

\* Lines the user may type on a many-values field, terminator included.
ManyLines ==
    { <<"\n">>,
      <<"7", "\n">>,
      <<"7", " ", "1", "2", "\n">>,
      <<"7", ",", "1", "2", "\n">>,
      <<" ", "7", " ", " ", "3", "\n">>,
      <<"7", " ", "a", "b", "\n">>,
      <<"3", "0", "0", ",", "0", "\n">> }

\* Position of the first `c` in s, 0 when there is none.
RECURSIVE FirstAt(_, _, _)
FirstAt(s, c, i) ==
    IF i > Len(s) THEN 0
    ELSE IF s[i] = c THEN i
    ELSE FirstAt(s, c, i + 1)

\* str::split on a one-character separator: the pieces between the
\* separators, the empty ones included; a text without the separator is
\* one piece.
RECURSIVE Split(_, _)
Split(s, c) ==
    IF FirstAt(s, c, 1) = 0 THEN <<s>>
    ELSE <<SubSeq(s, 1, FirstAt(s, c, 1) - 1)>>
            \o Split(SubSeq(s, FirstAt(s, c, 1) + 1, Len(s)), c)

\* The value of a many-values call: the values of the tokens, in order.
ManyVal(vs) == [n |-> -1, s |-> <<>>, many |-> vs]

\* A token is accepted: it parses into T and the predicate accepts it.
TokenAccepted(T, tok, p) == FromStr(T, tok).ok /\ Until(p, FromStr(T, tok).val)

\* (a many-values attempt that keeps the accepted tokens of the line)
ManyValuesArmKeepsValid(T, res, c, p) ==
    IF ~res.ok THEN ErrResult("IOError", <<>>)
    ELSE IF \E i \in 1..Len(Split(res.s, c)) : TokenAccepted(T, Split(res.s, c)[i], p)
         THEN Accepted(ManyVal(
                [i \in 1..Cardinality({j \in 1..Len(Split(res.s, c)) :
                                        TokenAccepted(T, Split(res.s, c)[j], p)}) |->
                    FromStr(T, Split(res.s, c)[
                        CHOOSE j \in 1..Len(Split(res.s, c)) :
                            /\ TokenAccepted(T, Split(res.s, c)[j], p)
                            /\ Cardinality({k \in 1..j :
                                    TokenAccepted(T, Split(res.s, c)[k], p)}) = i]).val]))
         ELSE NoResult

\* One attempt of the many-values call on the outcome `res` of its prompt
\* and read: the line is split on the separator, every token is parsed and
\* given to the predicate, and the attempt gives the values when every
\* token is accepted and nothing (the loop goes round again) otherwise.
ManyValuesArm(T, res, c, p) ==
    IF ~res.ok THEN ErrResult("IOError", <<>>)
    ELSE IF \A i \in 1..Len(Split(res.s, c)) : TokenAccepted(T, Split(res.s, c)[i], p)
         THEN Accepted(ManyVal([i \in 1..Len(Split(res.s, c)) |->
                                    FromStr(T, Split(res.s, c)[i]).val]))
         ELSE NoResult

\* A field on which the many-values call is made.
ManyInit ==
    /\ pc = "write"
    /\ result = NoResult
    /\ eof = FALSE
    /\ shown = NotShown
    /\ prompts = 0
    /\ reads = 0
    /\ retries = 0
    /\ ty \in FieldTypes
    /\ details_default = <<>>
    /\ until \in Predicates
    /\ entry = "many_values"
    /\ sep \in Separators
    /\ fields = <<>>
    /\ default = <<>>
    /\ listed = 0
    /\ bound = <<>>
    /\ selected = Out(NoResult, <<>>)
    /\ rows = <<>>
    /\ title = <<>>
    /\ first_popped = FALSE
    /\ history = <<>>
    /\ FreshFormatting
    /\ NoEnv
    /\ NoAnswers
    /\ NoExample

\* read_input: stream.read_line(&mut out)? and Ok(out.trim().to_owned())
ManyRead ==
    /\ pc = "read"
    /\ \/ \E l \in (IF eof THEN {} ELSE ManyLines) \cup {EndOfInput} :
            /\ shown' = [ok |-> TRUE, s |-> trim(l)]
            /\ eof' = (l = EndOfInput)
            /\ reads' = Bump(reads)
            /\ trace' = Append(trace, LineRead)
            /\ pc' = "match"
       \/ /\ IoFailure
          /\ UNCHANGED <<eof, reads, trace>>
    /\ UNCHANGED <<result, prompts, retries, fieldCfg, envVars, repeatVars, example, fmtVars, valueMenu, menuVars>>

\* The attempt on the line read, and the loop of the call on it.
ManyMatch ==
    /\ pc = "match" /\ entry = "many_values"
    /\ LET r == ManyValuesArm(ty, shown, sep, until) IN
        /\ result' = r
        /\ IF r = NoResult
           THEN pc' = "write" /\ retries' = Bump(retries)
           ELSE pc' = "done" /\ UNCHANGED retries
    /\ UNCHANGED <<streamVars, fieldCfg, envVars, repeatVars, promptVars, fmtVars, valueMenu, menuVars>>

ManyNext == WritePrompt \/ Flush \/ ManyRead \/ ManyMatch

ManySpec == ManyInit /\ [][ManyNext]_vars

\* The tokens of the line of the latest attempt.
Tokens == Split(shown.s, sep)

\* C30: the many-values call splits the trimmed line on the separator; when
\* every token parses and is accepted by the predicate the call returns the
\* values of all the tokens, in order; when at least one token is rejected
\* the call returns nothing of the line and asks again, and the line counts
\* as one failed attempt, however many tokens it has.
C30_ManyAllOrNothing ==
    /\ retries <= reads
    /\ Processed =>
          IF \A i \in 1..Len(Tokens) :
                /\ FromStr(ty, Tokens[i]).ok
                /\ Until(until, FromStr(ty, Tokens[i]).val)
          THEN /\ pc = "done"
               /\ result.kind = "Ok"
               /\ Len(result.val.many) = Len(Tokens)
               /\ \A i \in 1..Len(Tokens) :
                        result.val.many[i] = FromStr(ty, Tokens[i]).val
          ELSE /\ pc = "write"
               /\ result = NoResult
               /\ retries >= 1

\* C30 witness: a line of two tokens, the first accepted and the second
\* rejected, was one failed attempt: nothing was returned and the prompt
\* comes again.
C30_Witness ==
    /\ pc = "write" /\ Processed /\ ty = "u8"
    /\ Len(Tokens) = 2
    /\ TokenAccepted(ty, Tokens[1], until) /\ ~TokenAccepted(ty, Tokens[2], until)
    /\ result = NoResult /\ retries = 1

\* -------------------------------------------------- the prompt of a field

\* A ValueField with a message, made with ValueField::fmt(f), with or
\* without an example and a default, on which build_until is called.
PromptInit ==
    /\ pc = "write"
    /\ result = NoResult
    /\ eof = FALSE
    /\ shown = NotShown
    /\ prompts = 0
    /\ reads = 0
    /\ retries = 0
    /\ ty \in FieldTypes
    /\ details_default \in {<<>>} \cup {<<d>> : d \in DefaultValues}
    /\ until = "keep"
    /\ entry = "build_until"
    /\ sep = ""
    /\ fields = <<>>
    /\ default = <<>>
    /\ listed = 0
    /\ bound = <<>>
    /\ selected = Out(NoResult, <<>>)
    /\ rows = <<>>
    /\ title = <<>>
    /\ first_popped = FALSE
    /\ history = <<>>
    /\ \E f \in Formattings :
        LET s == ValueField_fmt([fmt |-> DefaultFormatting, custom_fmt |-> FALSE,
                                 show_d |-> DefaultFormatting.default], f)
        IN  /\ fmt = s.fmt
            /\ custom_fmt = s.custom_fmt
            /\ show_d = s.show_d
            /\ given = <<[fmt |-> f, set |-> Props]>>
    /\ title_fmt = Constructed({"prefix"}, [DefaultFormatting EXCEPT !.prefix = ":"])
    /\ title_custom_fmt = FALSE
    /\ title_given = <<>>
    /\ menu_fmt = DefaultFormatting
    /\ inherits = 0
    /\ NoEnv
    /\ NoAnswers
    /\ example \in {<<>>} \cup {<<e>> : e \in Examples}
    /\ trace = <<>>

PromptSpec == PromptInit /\ [][FieldNext]_vars

\* The prompt of the field as the claim orders it: chip, message, hint,
\* newline when new_line is set, prefix.
PromptInOrder ==
    <<Piece("chip", <<fmt.chip>>), Piece("msg", Msg)>>
        \o Display_FieldDetails(example, details_default, show_d).text
        \o (IF fmt.new_line THEN <<Piece("nl", <<"\n">>)>> ELSE <<>>)
        \o <<Piece("prefix", <<fmt.prefix>>)>>

\* The positions of the attempt's trace at which a line was read.
ReadsOfAttempt == {i \in 1..Len(trace) : trace[i] = LineRead}

\* C31: in every attempt of a written field the line is read only after the
\* whole prompt (chip, message, hint, newline only when new_line is set,
\* prefix, in that order) has been written and flushed; an attempt reads
\* one line, and lines are read in attempts only (never more lines than
\* prompts).
C31_PromptBeforeRead ==
    /\ Cardinality(ReadsOfAttempt) <= 1
    /\ reads <= prompts
    /\ \A i \in ReadsOfAttempt :
            SubSeq(trace, 1, i) = PromptInOrder \o <<Flushed, LineRead>>
    /\ (pc = "match" /\ shown.ok) => Cardinality(ReadsOfAttempt) = 1
    /\ pc \in {"read", "nl"} => SubSeq(trace, 1, Len(PromptInOrder) + 1)
                                    = PromptInOrder \o <<Flushed>>

\* C31 witness: the second attempt of a field with an example and a format
\* without newline has read its line.
C31_Witness ==
    /\ pc = "match" /\ shown.ok /\ retries = 1
    /\ ~fmt.new_line /\ example # <<>>
    /\ trace = PromptInOrder \o <<Flushed, LineRead, Piece("nl", <<"\n">>)>>

\* --------------------------------------------- build_until: what it returns

\* The configured default parses into the target type, and its value.
DefaultParses == HasDefault /\ FromStr(ty, details_default[1].s).ok
DefaultParsed == FromStr(ty, details_default[1].s).val

\* C32: every value build_until returns was either parsed from the line of
\* the last attempt and accepted by the predicate, or is the resolved
\* default; the default is returned whether the predicate accepts it or
\* not, whenever the line read does not parse; a value parsed from the line
\* and rejected by the predicate is not returned.
C32_ReturnedValues ==
    /\ (pc = "done" /\ result.kind = "Ok") =>
            \/ /\ result.via = "Accepted"
               /\ shown.ok /\ LineParses /\ Until(until, LineValue)
               /\ result.val = LineValue
            \/ /\ result.via = "Fallback"
               /\ DefaultParses /\ result.val = DefaultParsed
    /\ (Processed /\ ~LineParses /\ DefaultParses) =>
            (pc = "done" /\ result = Fallback(DefaultParsed))
    /\ (Processed /\ LineParses /\ ~Until(until, LineValue)) =>
            (result.kind # "Ok" \/ result.via # "Accepted")

\* C32 witness: the default was returned although the predicate rejects its
\* value.
C32_Witness ==
    /\ pc = "done" /\ result.via = "Fallback" /\ DefaultParses
    /\ result.val = DefaultParsed /\ ~Until(until, DefaultParsed)

\* ------------------------------------------ ValueMenu: fields are consumed

\* The call that the step has just added to the history.
LastCall == history'[Len(history')]

\* C33: a call of ValueMenu::next_output (or next_output_with) takes the
\* next field out of the menu before it builds it: when the call reaches a
\* field, that field is the first one left and the menu has exactly one
\* field less after the call, whether the build gave a value or an error;
\* when the call reaches no field the fields stay as they are; and when
\* writing the title fails no field is taken and the title is still to be
\* written by the next call.
C33_FieldConsumedBeforeBuild ==
    [][(Len(history') = Len(history) + 1
          /\ LastCall.op \in {"next_output", "next_output_with"}) =>
            /\ LastCall.asked =>
                    /\ fields # <<>>
                    /\ LastCall.field = Head(fields)
                    /\ fields' = Tail(fields)
                    /\ LastCall.res \in {"Ok", "BuildErr"}
            /\ ~LastCall.asked => fields' = fields
            /\ LastCall.title = "failed" =>
                    /\ ~LastCall.asked /\ LastCall.res = "IOError"
                    /\ fields' = fields
                    /\ title # <<>> /\ ~first_popped /\ ~first_popped'
    ]_vars

\* C33 witness: on a titled menu of two fields, next_output failed on the
\* title, then wrote it and failed building field 1, then built field 2.
C33_Witness ==
    /\ Len(history) = 3 /\ fields = <<>> /\ title # <<>>
    /\ \A k \in 1..3 : history[k].op = "next_output"
    /\ history[1].title = "failed" /\ history[1].field = 0
    /\ history[2].title = "written" /\ history[2].field = 1
    /\ history[2].res = "BuildErr"
    /\ history[3].field = 2 /\ history[3].res = "Ok"

\* ------------------------------------------- SelectMenu::next_or_default

\* select(..).unwrap_or_default() of next_or_default: the value of select,
\* or Output::default() when select returned an error.
NextOrDefaultArm(T, res, dflt, fs) ==
    IF select(T, res, dflt, fs).res.kind = "Ok"
    THEN select(T, res, dflt, fs)
    ELSE Out(Defaulted(TypeDefault(T)), select(T, res, dflt, fs).calls)

\* next_or_default: if self.stream.write_all(format!("{}", self)..).is_ok()
\* .. else Output::default()
WriteListOrDefault ==
    /\ pc = "list"
    /\ \/ /\ pc' = "prefix"
          /\ listed' = listed + 1
          /\ rows' = rows \o DisplayFields(fields, default)
          /\ UNCHANGED <<result, shown>>
       \/ /\ pc' = "done"
          /\ result' = Defaulted(TypeDefault(ty))
          /\ shown' = IoFailed
          /\ UNCHANGED <<listed, rows>>
    /\ UNCHANGED <<eof, prompts, reads, retries, fieldCfg, envVars, repeatVars, promptVars, fmtVars, valueMenu, menuCfg, bound, selected>>

\* The rest of select, and unwrap_or_default on its result.
SelectOrDefaultMatch ==
    /\ pc = "smatch"
    /\ result' = NextOrDefaultArm(ty, shown, default, fields).res
    /\ bound' = Logged(bound, NextOrDefaultArm(ty, shown, default, fields).calls)
    /\ selected' = select(ty, shown, default, fields)
    /\ pc' = "done"
    /\ UNCHANGED <<streamVars, retries, fieldCfg, envVars, repeatVars, promptVars, fmtVars, valueMenu, menuCfg, listed, rows>>

SelectOrDefaultNext ==
    WriteListOrDefault \/ WritePrefix \/ SelectFlush \/ SelectRead \/ SelectOrDefaultMatch

SelectOrDefaultSpec == SelectInit /\ [][SelectOrDefaultNext]_vars

\* What next_output gives on the same menu and the same line.
OfNextOutput == NextOutputArm(ty, shown, default, fields).res

\* C34 (as claimed): when next_or_default has read a line on which
\* next_output returns Ok(v) after that single line, next_or_default
\* returns v (looked at on String menus with a valid default index in
\* which no binding fails).
C34_OrDefaultAgreesWithNextOutput ==
    (/\ pc = "done" /\ reads = 1 /\ shown.ok
     /\ ty = "String" /\ ValidDefault
     /\ \A i \in 1..Len(fields) : fields[i].bind # "err"
     /\ OfNextOutput.kind = "Ok") =>
        (result.kind = "Ok" /\ result.val = OfNextOutput.val)

\* ---------------------------------------------------- the hint of a field

\* The pieces of the hint in the prompt the attempt has written.
HintWritten ==
    LET InHint(x) == x.part \in {"text", "default", "example"} IN SelectSeq(trace, InHint)

\* The texts of the hint's pieces of the kind `part`.
HintTexts(part) == {HintWritten[i].text : i \in {j \in 1..Len(HintWritten) : HintWritten[j].part = part}}

\* C35: for every combination of example, default and show_d, rendering the
\* hint never reaches unreachable!(); in the prompt written, the hint is
\* empty exactly when there is no example and either no default or show_d is
\* false; the default is in it exactly when there is one and show_d is true;
\* the example is in it exactly when there is one.
C35_HintFollowsFlags ==
    /\ Display_FieldDetails(example, details_default, show_d).ok
    /\ result # PanicResult(<<>>)
    /\ pc = "flush" =>
        /\ HintWritten = <<>> <=>
                (example = <<>> /\ (details_default = <<>> \/ ~show_d))
        /\ HintTexts("default") =
                IF details_default # <<>> /\ show_d THEN {details_default[1].s} ELSE {}
        /\ HintTexts("example") = IF example # <<>> THEN {example[1]} ELSE {}

\* C35 witness: a field with an example and a default whose format hides
\* the default has written its prompt: the hint has the example alone.
C35_Witness ==
    /\ pc = "flush" /\ example # <<>> /\ details_default # <<>> /\ ~show_d
    /\ HintWritten = InParens(ExampleText(example[1]))

\* ------------------------------------------------- the hint flag of a field

\* C36: after ValueField::from and after any sequence of ValueField::fmt
\* and inherit_fmt calls, details.show_d is the `default` flag of the format
\* the field has now.
C36_ShowDefaultFollowsFormat == show_d = fmt.default

\* C36 witness: a field given a format that hides the default kept it
\* through the inherit_fmt calls of a menu whose format shows the default.
C36_Witness ==
    /\ pc = "in_menu" /\ inherits >= 2 /\ custom_fmt
    /\ ~fmt.default /\ ~show_d /\ menu_fmt.default

====
